---------------------------- MODULE Spec2Model ----------------------------
(* Model of the obsidian-chat ingestion and retrieval pipeline:            *)
(* VaultManager (register / scan / delete), Chunker, VectorStore (index    *)
(* build and search) and the composed process_vault handler, over a        *)
(* relational store (vaults, documents, chunks), a filesystem and one      *)
(* FAISS index file per vault.                                             *)
(*                                                                         *)
(* Every service call is split at the points where the code touches a      *)
(* shared resource (database read, index file read, index file write,      *)
(* commit), so that failures between two points and interleavings of two   *)
(* request threads are states of the model.  Spec runs one request at a    *)
(* time (callers serialize); SpecConc lets two request threads interleave. *)
EXTENDS Integers, Sequences, FiniteSets, TLC

(***************************************************************************)
(* Bounds of the model.                                                    *)
(***************************************************************************)
\* number of vault ids (uuid4 values) that registration can hand out
MaxVaults == 1
\* number of chunk ids (uuid4 values) that chunking can hand out
MaxChunkIds == 3
\* number of changes made to the files on disk
MaxEdits == 2
\* largest top_k a search is called with
MaxK == 3
\* longest text and largest chunk size given to _create_chunks on its own
MaxLen == 30
MaxSize == 10
\* longest list of texts given to embed_batch on its own
MaxBatch == 3
\* number of vault ids handed out while registrations and deletions interleave
MaxRegistered == 2
\* number of index builds hit by a failure (of the provider call or of the commit)
MaxFaults == 1
\* number of iterations after which a run of the chunking loop is cut off
MaxIterations == 40

(***************************************************************************)
(* Program constants (src/app/config.py), scaled to the text sizes used.   *)
(***************************************************************************)
CHUNK_SIZE == 2
CHUNK_OVERLAP == 1
EMBEDDING_DIMENSION == 1
\* the dimension of the sentence-transformer model of LocalEmbedder
LOCAL_DIMENSION == 2

\* request threads of the server (FastAPI runs sync handlers in a pool)
Procs == {"t1", "t2"}

\* Characters are numbers; 0 is a whitespace character.
FileTexts == { <<1>>, <<2, 1, 3>> }
QueryTexts == { <<1>>, <<1, 3>>, <<0>> }

\* Directories and the places under them where a *.md file can be.
Dirs == {"/v", "/w"}
RelPathSeq == << <<"a.md">>, <<"d", "a.md">> >>
RelPaths == {RelPathSeq[i] : i \in 1..Len(RelPathSeq)}
FilePlaces == { <<"/v", <<"a.md">>>>, <<"/v", <<"d", "a.md">>>>, <<"/w", <<"a.md">>>> }
\* Path arguments given to register, and what Path.resolve() makes of them.
PathArgs == {"/v", "/v/.", "/w", "/x", "/v/a.md"}

NoFile == [kind |-> "absent"]
BadFile == [kind |-> "bad"]
TextFile(t) == [kind |-> "text", text |-> t]
FileStates == {NoFile, BadFile} \cup {TextFile(t) : t \in FileTexts}

VaultIds == 1..MaxVaults
ChunkIds == 1..MaxChunkIds

(***************************************************************************)
(* Generic helpers.                                                        *)
(***************************************************************************)
Min(a, b) == IF a <= b THEN a ELSE b

RECURSIVE SumSeq(_)
SumSeq(s) == IF s = <<>> THEN 0 ELSE s[1] + SumSeq(Tail(s))

Range(s) == {s[i] : i \in 1..Len(s)}

\* every ordering of a finite set, as sequences
Perms(S) == {f \in [1..Cardinality(S) -> S] : \A i, j \in 1..Cardinality(S) : f[i] = f[j] => i = j}

RECURSIVE SortInts(_)
SortInts(S) ==
     IF S = {} THEN <<>>
     ELSE LET m == CHOOSE x \in S : \A y \in S : x <= y
          IN <<m>> \o SortInts(S \ {m})

IsPrefix(s, t) == Len(s) <= Len(t) /\ SubSeq(t, 1, Len(s)) = s


(***************************************************************************)
(* Pure functions of the code.                                             *)
(***************************************************************************)
\* a slice that loses its last character
Slice_DropsLast(text, start, end) == SubSeq(text, start + 1, end - 1)

\* text[start:end] for 0 <= start <= end <= len(text)
Slice(text, start, end) == SubSeq(text, start + 1, end)

\* hashlib.sha256(content).hexdigest(): an injective tag of the content
CalculateHash(content) == <<"sha256", content>>

\* a loop without the adjustment of start: windows that do not overlap
ChunkLoop_NoOverlap(len, S, V, start) ==
     [i \in 1..((len - start + S - 1) \div S) |->
        [start |-> start + (i - 1) * S, end |-> Min(start + i * S, len)]]

\* the while loop of Chunker._create_chunks: the windows [start, end) it cuts
RECURSIVE ChunkLoop(_, _, _, _)
ChunkLoop(len, S, V, start) ==
     IF ~(start < len) THEN <<>>
     ELSE LET adj == IF start > 0 THEN start - V ELSE start
              end == Min(adj + S, len)
          IN <<[start |-> adj, end |-> end]>> \o ChunkLoop(len, S, V, end)

\* a chunker that returns no chunk for an empty text
Windows_EmptyNone(text, S, V) ==
     IF text = <<>> THEN <<>>
     ELSE IF Len(text) <= S THEN <<[start |-> 0, end |-> Len(text)]>>
     ELSE ChunkLoop(Len(text), S, V, 0)

\* Chunker._create_chunks: the windows of a text
Windows(text, S, V) ==
     IF Len(text) <= S THEN <<[start |-> 0, end |-> Len(text)]>>
     ELSE ChunkLoop(Len(text), S, V, 0)

\* a chunker whose sequence counter starts at 1
CreateChunks_SeqFromOne(text, S, V) ==
     LET w == Windows(text, S, V)
     IN [i \in 1..Len(w) |->
            LET c == Slice(text, w[i].start, w[i].end)
            IN [content |-> c, sequence |-> i, chunk_hash |-> CalculateHash(c)]]

\* Chunker._create_chunks: content, sequence number and hash of every chunk
CreateChunks(text, S, V) ==
     LET w == Windows(text, S, V)
     IN [i \in 1..Len(w) |->
            LET c == Slice(text, w[i].start, w[i].end)
            IN [content |-> c, sequence |-> i - 1, chunk_hash |-> CalculateHash(c)]]

\* text.strip() == ""
Blank(text) == \A i \in 1..Len(text) : text[i] = 0

ZeroVector == [i \in 1..EMBEDDING_DIMENSION |-> 0]
\* what the remote embedding model answers for a text (a function of the text)
RemoteEmbedding(text) == [i \in 1..EMBEDDING_DIMENSION |-> SumSeq(text)]

\* OpenAIEmbedder.embed_text; ok1, ok2: whether the first call and the retry succeed
EmbedText(text, ok1, ok2) ==
     IF Blank(text) THEN [vec |-> ZeroVector, calls |-> 0]
     ELSE IF ok1 THEN [vec |-> RemoteEmbedding(text), calls |-> 1]
     ELSE IF ok2 THEN [vec |-> RemoteEmbedding(text), calls |-> 2]
     ELSE [vec |-> ZeroVector, calls |-> 2]

\* lines 79-84: the positions (1-based) of the texts with text.strip() true
NonEmptyIndices(texts) ==
     LET Keep(i) == ~Blank(texts[i])
     IN SelectSeq([i \in 1..Len(texts) |-> i], Keep)

\* response.data of one embeddings.create call on a list: one embedding per
\* input, in input order
RemoteBatch(inputs) == [i \in 1..Len(inputs) |-> RemoteEmbedding(inputs[i])]

\* results filled from the front, whatever the positions of the texts sent
FillResults_Packed(n, indices, data, zero) ==
     [k \in 1..n |-> IF k <= Len(data) THEN data[k] ELSE zero]

\* lines 97-101: a list of n zero vectors with results[indices[i]] = data[i]
FillResults(n, indices, data, zero) ==
     [k \in 1..n |->
        IF \E i \in 1..Len(indices) : indices[i] = k
        THEN data[CHOOSE i \in 1..Len(indices) : indices[i] = k]
        ELSE zero]

\* OpenAIEmbedder.embed_batch; ok: whether the one remote call succeeds
EmbedBatch(texts, ok) ==
     LET indices == NonEmptyIndices(texts)
         non_empty_texts == [i \in 1..Len(indices) |-> texts[indices[i]]]
         zeros == [i \in 1..Len(texts) |-> ZeroVector]
     IN IF texts = <<>> THEN [vecs |-> <<>>, calls |-> 0, sent |-> <<>>]
        ELSE IF non_empty_texts = <<>> THEN [vecs |-> zeros, calls |-> 0, sent |-> <<>>]
        ELSE IF ok
             THEN [vecs |-> FillResults(Len(texts), indices, RemoteBatch(non_empty_texts), ZeroVector),
                   calls |-> 1, sent |-> non_empty_texts]
        ELSE [vecs |-> zeros, calls |-> 1, sent |-> non_empty_texts]

\* LocalEmbedder: the sentence-transformer model and its own dimension
LocalZeroVector == [i \in 1..LOCAL_DIMENSION |-> 0]
LocalEncode(text) == [i \in 1..LOCAL_DIMENSION |-> SumSeq(text) + i]

\* LocalEmbedder.embed_text; calls: the number of model.encode calls
LocalEmbedText(text) ==
     IF Blank(text) THEN [vec |-> LocalZeroVector, calls |-> 0]
     ELSE [vec |-> LocalEncode(text), calls |-> 1]

\* LocalEmbedder.embed_batch
LocalEmbedBatch(texts) ==
     LET indices == NonEmptyIndices(texts)
         non_empty_texts == [i \in 1..Len(indices) |-> texts[indices[i]]]
     IN IF texts = <<>> THEN [vecs |-> <<>>, calls |-> 0, sent |-> <<>>]
        ELSE IF non_empty_texts = <<>>
             THEN [vecs |-> [i \in 1..Len(texts) |-> LocalZeroVector], calls |-> 0, sent |-> <<>>]
        ELSE [vecs |-> FillResults(Len(texts), indices,
                                   [i \in 1..Len(non_empty_texts) |-> LocalEncode(non_empty_texts[i])],
                                   LocalZeroVector),
              calls |-> 1, sent |-> non_empty_texts]

\* squared Euclidean distance, the metric of faiss.IndexFlatL2
L2(a, b) == SumSeq([i \in 1..Len(a) |-> (a[i] - b[i]) * (a[i] - b[i])])

\* the distance faiss reports for a neighbour slot it could not fill (FLT_MAX)
FLT_MAX == 10 * 10 * 10

\* a search that lists the positions in index order
NearestOf_Unsorted(vecs, q, left) ==
     [i \in 1..Len(vecs) |-> [idx |-> i - 1, dist |-> L2(vecs[i], q)]]

\* faiss IndexFlatL2.search: the positions (0-based) nearest to q first
RECURSIVE NearestOf(_, _, _)
NearestOf(vecs, q, left) ==
     IF left = {} THEN <<>>
     ELSE LET best == CHOOSE i \in left : \A j \in left :
                         \/ L2(vecs[i], q) < L2(vecs[j], q)
                         \/ L2(vecs[i], q) = L2(vecs[j], q) /\ i <= j
          IN <<[idx |-> best - 1, dist |-> L2(vecs[best], q)]>> \o NearestOf(vecs, q, left \ {best})

\* faiss index.search(q, k): exactly k slots, the unfilled ones hold position -1
FaissSearch(vecs, q, k) ==
     LET near == NearestOf(vecs, q, 1..Len(vecs))
     IN [i \in 1..k |-> IF i <= Len(near) THEN near[i] ELSE [idx |-> -1, dist |-> FLT_MAX]]

\* Path(path).resolve(): the canonical spelling of a path argument
Resolve(path) == IF path = "/v/." THEN "/v" ELSE path

\* file_path.name: the last component of a relative path
FileName(rel) == rel[Len(rel)]

(***************************************************************************)
(* State.                                                                  *)
(***************************************************************************)
VARIABLES
  dirs,       \* the directories that exist on disk
  files,      \* FilePlaces -> FileStates: the *.md files on disk
  edits,      \* number of changes made to the files so far
  scanned,    \* VaultIds -> whether a scan of the vault has completed since the files
              \* under its root last changed (history)
  faults,     \* number of index builds hit by a failure so far
  vaults,     \* table vaults: set of [id, path, is_indexed]
  documents,  \* table documents: set of [id, vault_id, path, filename, content_hash]
  chunks,     \* table chunks: set of [id, document_id, content, sequence, chunk_hash, embedding_stored]
  ids,        \* the uuid4 values handed out so far: [vault, doc: counters, chunk: set]
  dbLock,     \* the thread holding the database write lock, or "none"
  index,      \* VaultIds -> [exists, vecs]: the index file <vault_id>.index
  slotOwner,  \* VaultIds -> for each index slot, the chunk it was written for, the number
              \* of the build that wrote it and the vector embedded for it (history)
  pc,         \* Procs -> where each request thread is
  loc,        \* Procs -> the local variables of the running service call
  job,        \* Procs -> the local variables of a running process_vault handler
  ret,        \* Procs -> what the finished call returned or raised
  pre         \* Procs -> the stores as they were when the running call started (history)

fsVars == <<dirs, files, edits, scanned>>
dbVars == <<vaults, documents, chunks, ids, dbLock>>
ixVars == <<index, slotOwner>>
thVars == <<pc, loc, job, ret, pre>>
vars == <<dirs, files, edits, scanned, faults, vaults, documents, chunks, ids, dbLock, index, slotOwner, pc, loc, job, ret, pre>>

NoLoc == [op |-> "none"]
NoJob == [active |-> FALSE]
NoRet == [op |-> "none", status |-> "none"]
NoPre == [taken |-> FALSE]
NoIndex == [exists |-> FALSE, vecs |-> <<>>]

Snapshot ==
  [taken |-> TRUE, vaults |-> vaults, documents |-> documents, chunks |-> chunks, index |-> index,
   files |-> files, scanned |-> scanned]

\* the state after start-up on an empty database, with the number of index
\* builds already counted as hit by a failure
EmptyStores(spent) ==
  /\ dirs = {"/v"}
  /\ files = [f \in FilePlaces |-> NoFile]
  /\ edits = 0
  /\ scanned = [v \in VaultIds |-> FALSE]
  /\ faults = spent
  /\ vaults = {}
  /\ documents = {}
  /\ chunks = {}
  /\ ids = [vault |-> 0, doc |-> 0, chunk |-> {}]
  /\ dbLock = "none"
  /\ index = [v \in VaultIds |-> NoIndex]
  /\ slotOwner = [v \in VaultIds |-> <<>>]
  /\ job = [p \in Procs |-> NoJob]
  /\ pre = [p \in Procs |-> NoPre]

Start(spent) ==
  /\ EmptyStores(spent)
  /\ pc = [p \in Procs |-> "idle"]
  /\ loc = [p \in Procs |-> NoLoc]
  /\ ret = [p \in Procs |-> NoRet]

Init == Start(0)

(***************************************************************************)
(* Queries on the tables.                                                  *)
(***************************************************************************)
VaultById(v) == {x \in vaults : x.id = v}
DocById(d) == {x \in documents : x.id = d}
\* a query on the documents of a vault that returns no row
DocsOf_None(docs, v) == {}

\* db.query(Document).filter(Document.vault_id == vault_id)
DocsOf(docs, v) == {x \in docs : x.vault_id = v}
\* Chunk joined to Document, filtered on Document.vault_id
ChunksOfVault(cs, docs, v) == {c \in cs : \E d \in DocsOf(docs, v) : d.id = c.document_id}
ChunksOfDoc(cs, d) == {c \in cs : c.document_id = d}

(***************************************************************************)
(* Control: how a service call hands its result back.                      *)
(***************************************************************************)
\* the call goes on to its next step
Goto(p, label, l) ==
  /\ pc' = [pc EXCEPT ![p] = label]
  /\ loc' = [loc EXCEPT ![p] = l]
  /\ UNCHANGED <<job, ret>>

\* process_vault, lines 126-152: what the handler does with the result of the
\* service call it was waiting for
Continue(p, op, status, val) ==
  IF status # "ok"
  THEN /\ pc' = [pc EXCEPT ![p] = "done"]
       /\ job' = [job EXCEPT ![p] = NoJob]
       /\ ret' = [ret EXCEPT ![p] =
                    [op |-> "process", status |-> status, failed |-> op, vault_id |-> job[p].vault,
                     classes |-> job[p].classes, documents_processed |-> job[p].processed,
                     queue |-> job[p].queue]]
  ELSE IF op = "scan"
  THEN /\ pc' = [pc EXCEPT ![p] = "p_list"]
       /\ job' = [job EXCEPT ![p].scan_stats = val.stats, ![p].classes = val.classes]
       /\ UNCHANGED ret
  ELSE IF op = "chunk"
  THEN /\ pc' = [pc EXCEPT ![p] = IF Tail(job[p].queue) = <<>> THEN "p_build" ELSE "p_chunk"]
       /\ job' = [job EXCEPT ![p].chunk_count = @ + Cardinality(val.chunks),
                             ![p].queue = Tail(@),
                             ![p].processed = Append(@, val.document_id)]
       /\ UNCHANGED ret
  ELSE /\ pc' = [pc EXCEPT ![p] = "done"]
       /\ job' = [job EXCEPT ![p] = NoJob]
       /\ ret' = [ret EXCEPT ![p] =
                    [op |-> "process", status |-> "ok", vault_id |-> job[p].vault,
                     scan_stats |-> job[p].scan_stats, classes |-> job[p].classes,
                     documents_processed |-> job[p].processed,
                     chunks_created |-> job[p].chunk_count, index_stats |-> val]]

\* the call returns val (status "ok") or raises (status "ValueError", "Exception")
Finish(p, op, status, val) ==
  /\ loc' = [loc EXCEPT ![p] = NoLoc]
  /\ IF job[p].active
     THEN Continue(p, op, status, val)
     ELSE /\ pc' = [pc EXCEPT ![p] = "done"]
          /\ ret' = [ret EXCEPT ![p] = [op |-> op, status |-> status, val |-> val]]
          /\ UNCHANGED job

\* a standalone call starts from idle, a call made by process_vault from its stage
Entry(p, stage) ==
  \/ /\ pc[p] = "idle"
     /\ pre' = [pre EXCEPT ![p] = Snapshot]
  \/ /\ pc[p] = stage
     /\ job[p].active
     /\ UNCHANGED pre

\* the caller takes the response; the thread is free again
Ack(p) ==
  /\ pc[p] = "done"
  /\ pc' = [pc EXCEPT ![p] = "idle"]
  /\ ret' = [ret EXCEPT ![p] = NoRet]
  /\ pre' = [pre EXCEPT ![p] = NoPre]
  /\ UNCHANGED <<fsVars, faults, dbVars, ixVars, loc, job>>

\* a commit or flush either succeeds or raises (the session is then rolled back)
Outcomes == {"ok", "fail"}

\* whether this step of an index build is hit by a failure; the failures of the
\* other calls leave no trace in the stores and need no bound
Inject(failed) ==
  IF failed THEN faults < MaxFaults /\ faults' = faults + 1 ELSE UNCHANGED faults

(***************************************************************************)
(* The filesystem changes under the program.                               *)
(***************************************************************************)
FsEdit(place, s) ==
  /\ \A p \in Procs : pc[p] = "idle"
  /\ place[1] \in dirs
  /\ edits < MaxEdits
  /\ files[place] # s
  /\ files' = [files EXCEPT ![place] = s]
  /\ edits' = edits + 1
  /\ scanned' = [v \in VaultIds |-> scanned[v] /\ \A x \in VaultById(v) : x.path # place[1]]
  /\ UNCHANGED <<dirs, faults, dbVars, ixVars, thVars>>

(***************************************************************************)
(* VaultManager.register_vault                                             *)
(***************************************************************************)
\* a lookup that never finds a vault at the path
OwnerOf_None(vs, path) == {}

\* line 36: db.query(Vault).filter(Vault.path == str(vault_path.resolve()))
OwnerOf(vs, path) == {x \in vs : x.path = path}

\* line 41: Vault(name=name, path=str(vault_path.resolve())); is_indexed
\* takes the column default
NewVault(id, path) == [id |-> id, path |-> path, is_indexed |-> FALSE]

RegisterVault(p, path) ==
  /\ pc[p] = "idle"
  /\ dbLock = "none"
  /\ pre' = [pre EXCEPT ![p] = Snapshot]
  /\ UNCHANGED <<fsVars, faults, documents, chunks, dbLock, ixVars>>
  /\ IF Resolve(path) \notin dirs
     THEN /\ Finish(p, "register", "ValueError", [msg |-> "does not exist or is not a directory"])
          /\ UNCHANGED <<vaults, ids>>
     ELSE IF OwnerOf(vaults, Resolve(path)) # {}
     THEN /\ Finish(p, "register", "ValueError", [msg |-> "already registered"])
          /\ UNCHANGED <<vaults, ids>>
     ELSE /\ ids.vault < MaxVaults
          /\ \E o \in Outcomes :
               LET vault == NewVault(ids.vault + 1, Resolve(path))
               IN IF o = "ok"
                  THEN /\ vaults' = vaults \cup {vault}
                       /\ ids' = [ids EXCEPT !.vault = @ + 1]
                       /\ Finish(p, "register", "ok", vault)
                  ELSE /\ UNCHANGED <<vaults, ids>>
                       /\ Finish(p, "register", "Exception", [msg |-> "commit failed"])

(***************************************************************************)
(* VaultManager.scan_vault                                                 *)
(***************************************************************************)
\* vault_path.glob("**/*.md"): the relative paths of the files under root
MarkdownFiles(root) == {rel \in RelPaths : <<root, rel>> \in FilePlaces /\ files[<<root, rel>>] # NoFile}

\* a lookup in an existing_paths dict that was left empty
ExistingAt_None(existing, rel) == {}

\* existing_paths[rel]: the dict keeps the last document listed for a path
ExistingAt(existing, rel) ==
  LET at == {d \in existing : d.path = rel}
  IN IF at = {} THEN {} ELSE {CHOOSE d \in at : \A e \in at : e.id <= d.id}

\* a loop whose try/except is around the whole loop: one failure ends it
Classify_AbortOnError(existing, root, rel) ==
  IF \E r \in RelPaths : <<root, r>> \in FilePlaces /\ files[<<root, r>>].kind = "bad"
  THEN "error"
  ELSE IF {d \in existing : d.path = rel} = {} THEN "new"
  ELSE IF \E d \in existing : d.path = rel /\ d.content_hash # CalculateHash(files[<<root, rel>>].text)
  THEN "updated" ELSE "unchanged"

\* a loop body that counts every file that can be read as new
Classify_AlwaysNew(existing, root, rel) ==
  IF files[<<root, rel>>].kind # "text" THEN "error" ELSE "new"

\* a loop body that counts every file with a Document as unchanged
Classify_NoCompare(existing, root, rel) ==
  IF files[<<root, rel>>].kind # "text" THEN "error"
  ELSE IF {d \in existing : d.path = rel} # {} THEN "unchanged" ELSE "new"

\* the body of the for loop, lines 109-138: how one enumerated file is counted
Classify(existing, root, rel) ==
  LET f == files[<<root, rel>>]
  IN IF f.kind # "text" THEN "error"
     ELSE IF ExistingAt(existing, rel) # {}
     THEN IF (CHOOSE d \in ExistingAt(existing, rel) : TRUE).content_hash # CalculateHash(f.text)
          THEN "updated" ELSE "unchanged"
     ELSE "new"

CountOf(classes, c) == Cardinality({rel \in DOMAIN classes : classes[rel] = c})

ScanStats(classes) ==
  [total_files |-> Cardinality(DOMAIN classes),
   new_files |-> CountOf(classes, "new"),
   updated_files |-> CountOf(classes, "updated"),
   unchanged_files |-> CountOf(classes, "unchanged"),
   errors |-> CountOf(classes, "error")]

\* a check that takes every root for present
RootExists_Always(root) == TRUE

\* line 86: vault_path.exists()
RootExists(root) == root \in dirs

\* lines 80-138: look the vault up, enumerate the files, read the documents of
\* the vault and classify every file; the writes wait in the session
ScanStart(p, v) ==
  /\ Entry(p, "p_scan")
  /\ job[p].active => v = job[p].vault
  /\ UNCHANGED <<fsVars, faults, dbVars, ixVars>>
  /\ IF VaultById(v) = {}
     THEN Finish(p, "scan", "ValueError", [msg |-> "vault not found", vault |-> v])
     ELSE LET root == (CHOOSE x \in VaultById(v) : TRUE).path
          IN IF ~RootExists(root)
             THEN Finish(p, "scan", "ValueError", [msg |-> "vault path does not exist", vault |-> v])
             ELSE LET existing == DocsOf(documents, v)
                      md == MarkdownFiles(root)
                      classes == [rel \in md |-> Classify(existing, root, rel)]
                  IN Goto(p, "s_commit",
                          [op |-> "scan", vault |-> v, classes |-> classes,
                           hashes |-> [rel \in {r \in md : classes[r] # "error"} |->
                                          CalculateHash(files[<<root, rel>>].text)],
                           targets |-> [rel \in {r \in md : classes[r] = "updated"} |->
                                          (CHOOSE d \in ExistingAt(existing, rel) : TRUE).id]])

\* the position of a relative path in the enumeration
PathRank(rel) == CHOOSE i \in 1..Len(RelPathSeq) : RelPathSeq[i] = rel

\* the Document rows the session inserts for the files counted as new
NewDocuments(l, firstId) ==
  LET new == {rel \in DOMAIN l.classes : l.classes[rel] = "new"}
  IN {[id |-> firstId + Cardinality({q \in new : PathRank(q) < PathRank(rel)}),
       vault_id |-> l.vault, path |-> rel, filename |-> FileName(rel),
       content_hash |-> l.hashes[rel]] : rel \in new}

\* a scan that also deletes the documents whose file it did not enumerate
ScanWrites_Prune(docs, l, firstId) ==
  {d \in docs : d.vault_id # l.vault \/ d.path \in DOMAIN l.classes} \cup NewDocuments(l, firstId)

\* the documents table after the session's hash updates and inserts
ScanWrites(docs, l, firstId) ==
  {IF \E rel \in DOMAIN l.targets : l.targets[rel] = d.id
   THEN [d EXCEPT !.content_hash = l.hashes[CHOOSE rel \in DOMAIN l.targets : l.targets[rel] = d.id]]
   ELSE d : d \in docs} \cup NewDocuments(l, firstId)

\* a scan that leaves the flag as it is
MarkIndexed_Never(vs, v) == vs

\* lines 140-142: vault_in_session.is_indexed = True
MarkIndexed(vs, v) == {IF x.id = v THEN [x EXCEPT !.is_indexed = TRUE] ELSE x : x \in vs}

\* lines 140-144: set is_indexed, leave the session: commit, or roll back and raise
ScanCommit(p, o) ==
  /\ pc[p] = "s_commit"
  /\ dbLock = "none"
  /\ UNCHANGED <<dirs, files, edits, faults, chunks, dbLock, ixVars, pre>>
  /\ IF o = "ok" /\ VaultById(loc[p].vault) # {}
     THEN /\ scanned' = [scanned EXCEPT ![loc[p].vault] = TRUE]
          /\ documents' = ScanWrites(documents, loc[p], ids.doc + 1)
          /\ vaults' = MarkIndexed(vaults, loc[p].vault)
          /\ ids' = [ids EXCEPT !.doc = @ + CountOf(loc[p].classes, "new")]
          /\ Finish(p, "scan", "ok", [vault |-> loc[p].vault, stats |-> ScanStats(loc[p].classes), classes |-> loc[p].classes])
     ELSE /\ UNCHANGED <<vaults, documents, ids, scanned>>
          /\ Finish(p, "scan", "Exception", [msg |-> "commit failed"])

(***************************************************************************)
(* VaultManager.delete_vault                                               *)
(***************************************************************************)
\* a Document.chunks relationship without the delete cascade
CascadeChunks_None(cs, docs, v) == {}

\* models.py lines 21 and 41: cascade="all, delete-orphan" from the vault to
\* its documents and from each document to its chunks
CascadeDocuments(docs, v) == DocsOf(docs, v)
CascadeChunks(cs, docs, v) == ChunksOfVault(cs, docs, v)

DeleteVault(p, v) ==
  /\ pc[p] = "idle"
  /\ dbLock = "none"
  /\ pre' = [pre EXCEPT ![p] = Snapshot]
  /\ UNCHANGED <<fsVars, faults, ids, dbLock, ixVars>>
  /\ IF VaultById(v) = {}
     THEN /\ UNCHANGED <<vaults, documents, chunks>>
          /\ Finish(p, "delete", "ok", [deleted |-> FALSE, vault |-> v])
     ELSE \E o \in Outcomes :
            IF o = "ok"
            THEN /\ vaults' = vaults \ VaultById(v)
                 /\ documents' = documents \ CascadeDocuments(documents, v)
                 /\ chunks' = chunks \ CascadeChunks(chunks, documents, v)
                 /\ Finish(p, "delete", "ok", [deleted |-> TRUE, vault |-> v])
            ELSE /\ UNCHANGED <<vaults, documents, chunks>>
                 /\ Finish(p, "delete", "Exception", [msg |-> "commit failed", vault |-> v])

(***************************************************************************)
(* Chunker.process_document                                                *)
(***************************************************************************)
\* an argument left out of a call (None)
NoneArg == 0 - 1

\* Chunker.__init__: "chunk_size or CHUNK_SIZE", "chunk_overlap or CHUNK_OVERLAP"
ChunkerInit(chunk_size, chunk_overlap) ==
  [chunk_size |-> IF chunk_size = NoneArg \/ chunk_size = 0 THEN CHUNK_SIZE ELSE chunk_size,
   chunk_overlap |-> IF chunk_overlap = NoneArg \/ chunk_overlap = 0 THEN CHUNK_OVERLAP ELSE chunk_overlap]

\* routes_vaults.py line 21: chunker = Chunker()
chunker == ChunkerInit(NoneArg, NoneArg)

\* the chunks self._create_chunks(content, document_id) makes
ChunksFor(content) == CreateChunks(content, chunker.chunk_size, chunker.chunk_overlap)

\* the ways to give n new rows distinct unused uuid4 values
FreshIds(n) == {f \in [1..n -> ChunkIds \ ids.chunk] : \A i, j \in 1..n : f[i] = f[j] => i = j}

\* a Chunk row whose embedding_stored column defaults to True
NewChunk_Embedded(id, d, c) ==
  [id |-> id, document_id |-> d, content |-> c.content, sequence |-> c.sequence,
   chunk_hash |-> c.chunk_hash, embedding_stored |-> TRUE]

\* a new Chunk row: embedding_stored takes the column default
NewChunk(id, d, c) ==
  [id |-> id, document_id |-> d, content |-> c.content, sequence |-> c.sequence,
   chunk_hash |-> c.chunk_hash, embedding_stored |-> FALSE]

\* lines 35-49: look the document up and read its file
ChunkStart(p, d) ==
  /\ Entry(p, "p_chunk")
  /\ job[p].active => d = Head(job[p].queue)
  /\ UNCHANGED <<fsVars, faults, dbVars, ixVars>>
  /\ IF DocById(d) = {}
     THEN Finish(p, "chunk", "ValueError", [msg |-> "document not found"])
     ELSE LET doc == CHOOSE x \in DocById(d) : TRUE
              root == (CHOOSE x \in VaultById(doc.vault_id) : TRUE).path
              f == files[<<root, doc.path>>]
          IN IF root \notin dirs \/ f.kind # "text"
             THEN Finish(p, "chunk", "Exception", [msg |-> "cannot read the file"])
             ELSE /\ Cardinality(ChunkIds \ ids.chunk) >= Len(ChunksFor(f.text))
                  /\ Goto(p, "c_delete", [op |-> "chunk", document_id |-> d, content |-> f.text])

\* line 52: DELETE the chunks of the document, inside the transaction; the
\* statement takes the database write lock, which the transaction keeps
ChunkDelete(p) ==
  /\ pc[p] = "c_delete"
  /\ dbLock = "none"
  /\ dbLock' = p
  /\ Goto(p, "c_insert", [loc[p] EXCEPT !.op = "chunk"])
  /\ UNCHANGED <<fsVars, faults, vaults, documents, chunks, ids, ixVars, pre>>

\* lines 55-59: create the chunks, add them, flush (INSERT inside the transaction)
ChunkInsert(p, o) ==
  /\ pc[p] = "c_insert"
  /\ UNCHANGED <<fsVars, faults, vaults, documents, chunks, ixVars, pre>>
  /\ IF o = "ok"
     THEN \E f \in FreshIds(Len(ChunksFor(loc[p].content))) :
            LET cs == ChunksFor(loc[p].content)
            IN /\ ids' = [ids EXCEPT !.chunk = @ \cup Range(f)]
               /\ UNCHANGED dbLock
               /\ Goto(p, "c_commit",
                       [op |-> "chunk", document_id |-> loc[p].document_id, content |-> loc[p].content,
                        added |-> {NewChunk(f[i], loc[p].document_id, cs[i]) : i \in 1..Len(cs)}])
     ELSE /\ dbLock' = "none"
          /\ UNCHANGED ids
          /\ Finish(p, "chunk", "Exception", [msg |-> "flush failed"])

\* a commit that loses the DELETE and keeps the INSERT
ReplaceChunks_KeepOld(cs, d, added) == cs \cup added

\* the chunks table once the transaction (delete, then insert) is committed
ReplaceChunks(cs, d, added) == (cs \ ChunksOfDoc(cs, d)) \cup added

\* leave the session: commit, or roll back and raise
ChunkCommit(p, o) ==
  /\ pc[p] = "c_commit"
  /\ dbLock' = "none"
  /\ UNCHANGED <<fsVars, faults, vaults, documents, ids, ixVars, pre>>
  /\ IF o = "ok"
     THEN /\ chunks' = ReplaceChunks(chunks, loc[p].document_id, loc[p].added)
          /\ Finish(p, "chunk", "ok", [document_id |-> loc[p].document_id, chunks |-> loc[p].added])
     ELSE /\ UNCHANGED chunks
          /\ Finish(p, "chunk", "Exception", [msg |-> "commit failed"])

(***************************************************************************)
(* VectorStore.create_or_update_index                                      *)
(***************************************************************************)
\* lines 63-66: the chunks of the vault with embedding_stored == False
PendingChunks(cs, docs, v) == {c \in ChunksOfVault(cs, docs, v) : ~c.embedding_stored}

\* .all() without ORDER BY: the rows come back in an order the database chooses
FetchOrders(rows) == Perms(rows)

\* a build without the early return of line 69
NothingToEmbed_Never(rows) == FALSE

\* line 69: "if not chunks"
NothingToEmbed(rows) == rows = {}

\* a build that always starts from a new IndexFlatL2
AddVectors_Overwrite(file, embeddings) == embeddings

\* lines 87-96: index.add on the loaded index, or on a new IndexFlatL2
AddVectors(file, embeddings) == IF file.exists THEN file.vecs \o embeddings ELSE embeddings

\* a loop that stops after the first processed chunk
MarkEmbedded_First(cs, chunk_ids) ==
  {IF chunk_ids # <<>> /\ c.id = chunk_ids[1] THEN [c EXCEPT !.embedding_stored = TRUE] ELSE c : c \in cs}

\* lines 102-105: set embedding_stored on every processed chunk that still exists
MarkEmbedded(cs, chunk_ids) ==
  {IF c.id \in Range(chunk_ids) THEN [c EXCEPT !.embedding_stored = TRUE] ELSE c : c \in cs}

\* lines 56-81: look the vault up, fetch the pending chunks, embed their texts
BuildStart(p, v) ==
  /\ Entry(p, "p_build")
  /\ job[p].active => v = job[p].vault
  /\ UNCHANGED <<fsVars, dbVars, ixVars>>
  /\ IF VaultById(v) = {}
     THEN UNCHANGED faults /\ Finish(p, "build", "ValueError", [msg |-> "vault not found", vault |-> v])
     ELSE IF NothingToEmbed(PendingChunks(chunks, documents, v))
     THEN UNCHANGED faults /\ Finish(p, "build", "ok", [vault |-> v, chunks_processed |-> 0, vectors_added |-> 0, embed_calls |-> 0])
     ELSE \E fetched \in FetchOrders(PendingChunks(chunks, documents, v)), ok \in BOOLEAN :
            LET e == EmbedBatch([i \in 1..Len(fetched) |-> fetched[i].content], ok)
            IN Inject(~ok) /\ Goto(p, "b_read",
                    [op |-> "build", vault |-> v,
                     chunk_ids |-> [i \in 1..Len(fetched) |-> fetched[i].id],
                     embeddings |-> e.vecs, embed_calls |-> e.calls,
                     provider_failed |-> e.calls > 0 /\ ~ok])

\* the number of builds that have written slots
BuildsOf(owners) == IF owners = <<>> THEN 0 ELSE owners[Len(owners)].build

\* lines 84-96: read the index file if there is one, add the vectors in memory
BuildRead(p) ==
  /\ pc[p] = "b_read"
  /\ Goto(p, "b_write",
          [op |-> "build", vault |-> loc[p].vault, chunk_ids |-> loc[p].chunk_ids,
           embeddings |-> loc[p].embeddings, embed_calls |-> loc[p].embed_calls,
           provider_failed |-> loc[p].provider_failed,
           mem |-> AddVectors(index[loc[p].vault], loc[p].embeddings),
           owners |-> slotOwner[loc[p].vault] \o
                        [i \in 1..Len(loc[p].chunk_ids) |->
                           [chunk |-> loc[p].chunk_ids[i], vec |-> loc[p].embeddings[i],
                            build |-> BuildsOf(slotOwner[loc[p].vault]) + 1]]])
  /\ UNCHANGED <<fsVars, faults, dbVars, ixVars, pre>>

\* line 99: faiss.write_index
BuildWrite(p) ==
  /\ pc[p] = "b_write"
  /\ index' = [index EXCEPT ![loc[p].vault] = [exists |-> TRUE, vecs |-> loc[p].mem]]
  /\ slotOwner' = [slotOwner EXCEPT ![loc[p].vault] = loc[p].owners]
  /\ Goto(p, "b_commit", loc[p])
  /\ UNCHANGED <<fsVars, faults, dbVars, pre>>

\* lines 102-111: mark the chunks, leave the session: commit, or roll back and raise
BuildCommit(p, o) ==
  /\ pc[p] = "b_commit"
  /\ dbLock = "none"
  /\ Inject(o = "fail")
  /\ UNCHANGED <<fsVars, vaults, documents, ids, dbLock, ixVars, pre>>
  /\ IF o = "ok"
     THEN /\ chunks' = MarkEmbedded(chunks, loc[p].chunk_ids)
          /\ Finish(p, "build", "ok",
                    [vault |-> loc[p].vault, chunks_processed |-> Len(loc[p].chunk_ids),
                     vectors_added |-> Len(loc[p].embeddings), embed_calls |-> loc[p].embed_calls,
                     provider_failed |-> loc[p].provider_failed])
     ELSE /\ UNCHANGED chunks
          /\ Finish(p, "build", "Exception",
                    [msg |-> "commit failed", provider_failed |-> loc[p].provider_failed])

(***************************************************************************)
(* VectorStore.search                                                      *)
(***************************************************************************)
\* lines 144-147: the embedded chunks of the vault, ORDER BY Chunk.id
OrderById(rows) ==
  LET sorted == SortInts({c.id : c \in rows})
  IN [i \in 1..Len(sorted) |-> CHOOSE c \in rows : c.id = sorted[i]]

\* all_chunks[idx] in Python: a negative idx counts from the end of the list
ListItem(list, idx) == IF idx >= 0 THEN list[idx + 1] ELSE list[Len(list) + idx + 1]

\* lines 158-167: the result record of one matched slot (slot: the faiss pair)
ResultOf(chunk, docs, slot) ==
  LET document == {d \in docs : d.id = chunk.document_id}
  IN [chunk_id |-> chunk.id, document_id |-> chunk.document_id,
      document_path |-> IF document # {} THEN (CHOOSE d \in document : TRUE).path ELSE <<"Unknown">>,
      document_name |-> IF document # {} THEN (CHOOSE d \in document : TRUE).filename ELSE "Unknown",
      content |-> chunk.content, sequence |-> chunk.sequence,
      idx |-> slot.idx, dist |-> slot.dist]

\* a loop that takes the last chunk for a position past the end of the list
ResolveSlots_Clamp(slots, all_chunks, docs) ==
  [i \in 1..Len(slots) |->
     ResultOf(ListItem(all_chunks, IF slots[i].idx < Len(all_chunks) THEN slots[i].idx ELSE 0 - 1),
              docs, slots[i])]

\* lines 154-169: the loop over I[0]
RECURSIVE ResolveSlots(_, _, _)
ResolveSlots(slots, all_chunks, docs) ==
  IF slots = <<>> THEN <<>>
  ELSE (IF slots[1].idx < Len(all_chunks)
        THEN <<ResultOf(ListItem(all_chunks, slots[1].idx), docs, slots[1])>>
        ELSE <<>>) \o ResolveSlots(Tail(slots), all_chunks, docs)

\* lines 141-169: what search returns for the slots faiss gave
SearchResults(slots, cs, docs, v) ==
  LET all_chunks == OrderById({c \in ChunksOfVault(cs, docs, v) : c.embedding_stored})
  IN IF all_chunks = <<>> \/ Len(slots) = 0 THEN <<>>
     ELSE ResolveSlots(slots, all_chunks, docs)

\* a check of the vault row in place of the index file
IndexFileExists_VaultRow(v) == VaultById(v) # {}

\* line 129: os.path.exists(index_path)
IndexFileExists(v) == index[v].exists

Search(p, v, query, top_k, ok1, ok2) ==
  /\ pc[p] = "idle"
  /\ pre' = [pre EXCEPT ![p] = Snapshot]
  /\ UNCHANGED <<fsVars, faults, dbVars, ixVars>>
  /\ IF ~IndexFileExists(v)
     THEN Finish(p, "search", "ValueError", [msg |-> "no index found", vault |-> v])
     ELSE LET e == EmbedText(query, ok1, ok2)
              slots == FaissSearch(index[v].vecs, e.vec, top_k)
          IN Finish(p, "search", "ok",
                    [vault |-> v, query |-> e.vec, top_k |-> top_k,
                     provider_failed |-> e.calls = 2 /\ ~ok2,
                     results |-> SearchResults(slots, chunks, documents, v)])

(***************************************************************************)
(* QueryEngine.query                                                       *)
(***************************************************************************)
\* a check of the index file in place of the vault row
VaultKnown_IndexFile(vs, v) == index[v].exists

\* query_engine.py lines 49-50: db.query(Vault).filter(Vault.id == vault_id).first()
VaultKnown(vs, v) == \E x \in vs : x.id = v

\* lines 47-51: look the vault up in a session of its own
QueryCheck(p, v, query, top_k, ok1, ok2) ==
  /\ pc[p] = "idle"
  /\ pre' = [pre EXCEPT ![p] = Snapshot]
  /\ UNCHANGED <<fsVars, faults, dbVars, ixVars>>
  /\ IF ~VaultKnown(vaults, v)
     THEN Finish(p, "query", "ValueError", [msg |-> "vault not found", vault |-> v])
     ELSE Goto(p, "q_search", [op |-> "query", vault |-> v, query |-> query, top_k |-> top_k,
                               ok1 |-> ok1, ok2 |-> ok2])

\* lines 53-65: self.vector_store.search, then the response built from its results
QuerySearch(p) ==
  /\ pc[p] = "q_search"
  /\ UNCHANGED <<fsVars, faults, dbVars, ixVars, pre>>
  /\ IF ~IndexFileExists(loc[p].vault)
     THEN Finish(p, "query", "ValueError", [msg |-> "no index found", vault |-> loc[p].vault])
     ELSE LET e == EmbedText(loc[p].query, loc[p].ok1, loc[p].ok2)
              slots == FaissSearch(index[loc[p].vault].vecs, e.vec, loc[p].top_k)
              results == SearchResults(slots, chunks, documents, loc[p].vault)
          IN Finish(p, "query", "ok",
                    [vault |-> loc[p].vault, query |-> loc[p].query, results |-> results,
                     sources |-> [i \in 1..Len(results) |->
                                    [document_name |-> results[i].document_name,
                                     document_path |-> results[i].document_path]]])

(***************************************************************************)
(* routes_vaults.process_vault                                             *)
(***************************************************************************)
\* the handler starts; step 1 is the call of scan_vault (ScanStart at "p_scan")
ProcessStart(p, v) ==
  /\ pc[p] = "idle"
  /\ pc' = [pc EXCEPT ![p] = "p_scan"]
  /\ job' = [job EXCEPT ![p] = [active |-> TRUE, vault |-> v, scan_stats |-> NoRet, classes |-> <<>>,
                                queue |-> <<>>, processed |-> <<>>, chunk_count |-> 0]]
  /\ pre' = [pre EXCEPT ![p] = Snapshot]
  /\ UNCHANGED <<fsVars, faults, dbVars, ixVars, loc, ret>>

\* lines 129-131: the ids of the documents the handler is going to chunk
DocumentsToProcess(docs, v, classes) == {d.id : d \in DocsOf(docs, v)}

\* step 2: list the documents; steps 3 and 4 are ChunkStart at "p_chunk" for
\* each id in turn and BuildStart at "p_build"
ProcessList(p) ==
  /\ pc[p] = "p_list"
  /\ \E q \in Perms(DocumentsToProcess(documents, job[p].vault, job[p].classes)) :
       /\ job' = [job EXCEPT ![p].queue = q]
       /\ pc' = [pc EXCEPT ![p] = IF q = <<>> THEN "p_build" ELSE "p_chunk"]
  /\ UNCHANGED <<fsVars, faults, dbVars, ixVars, loc, ret, pre>>

(***************************************************************************)
(* Specifications.                                                         *)
(***************************************************************************)
DocIdArgs == 1..(ids.doc + 1)
EmbedOutcomes == {<<TRUE, TRUE>>, <<FALSE, TRUE>>, <<FALSE, FALSE>>}

Step(p) ==
  \/ \E path \in PathArgs : RegisterVault(p, path)
  \/ \E v \in VaultIds : DeleteVault(p, v)
  \/ \E v \in VaultIds : ScanStart(p, v)
  \/ \E o \in Outcomes : ScanCommit(p, o)
  \/ \E d \in DocIdArgs : ChunkStart(p, d)
  \/ ChunkDelete(p)
  \/ \E o \in Outcomes : ChunkInsert(p, o)
  \/ \E o \in Outcomes : ChunkCommit(p, o)
  \/ \E v \in VaultIds : BuildStart(p, v)
  \/ BuildRead(p)
  \/ BuildWrite(p)
  \/ \E o \in Outcomes : BuildCommit(p, o)
  \/ \E v \in VaultIds, q \in QueryTexts, k \in 1..MaxK, e \in EmbedOutcomes : Search(p, v, q, k, e[1], e[2])
  \/ \E v \in VaultIds : ProcessStart(p, v)
  \/ ProcessList(p)
  \/ Ack(p)

Env == \E place \in FilePlaces, s \in FileStates : FsEdit(place, s)

\* requests are handled one at a time
Next == Env \/ Step("t1")

Spec == Init /\ [][Next]_vars

\* no other request is being handled
Alone(p) == \A q \in Procs \ {p} : pc[q] = "idle"

\* the calls that change the registry and the documents
Setup(p) ==
  \/ \E path \in PathArgs : RegisterVault(p, path)
  \/ \E v \in VaultIds : ScanStart(p, v)
  \/ \E o \in Outcomes : ScanCommit(p, o)

\* re-chunking a document
Chunking(p) ==
  \/ \E d \in DocIdArgs : ChunkStart(p, d)
  \/ ChunkDelete(p)
  \/ \E o \in Outcomes : ChunkInsert(p, o)
  \/ \E o \in Outcomes : ChunkCommit(p, o)

\* building the index
Building(p) ==
  \/ \E v \in VaultIds : BuildStart(p, v)
  \/ BuildRead(p)
  \/ BuildWrite(p)
  \/ \E o \in Outcomes : BuildCommit(p, o)
  \/ Ack(p)

\* two request threads: the index builds of both, and the chunking of one,
\* interleave at every step; the registry and the documents are set up while
\* the other thread is idle
NextConc == Env \/ (Alone("t1") /\ Setup("t1")) \/ Chunking("t1") \/ \E p \in Procs : Building(p)

\* the concurrent runs inject no failure into the index builds
InitConc == Start(MaxFaults)

SpecConc == InitConc /\ [][NextConc]_vars

(***************************************************************************)
(* Chunker._create_chunks called on its own.                               *)
(***************************************************************************)
\* a text of n characters, all different or all the same
TextOfLen(n, kind) == [i \in 1..n |-> IF kind = "distinct" THEN i ELSE 1]

\* the texts and the chunker attributes (chunk_size > chunk_overlap >= 0)
ChunkerInputs ==
  {[op |-> "create_chunks", text |-> TextOfLen(x[1], x[2]), chunk_size |-> x[3], chunk_overlap |-> x[4]] :
     x \in {y \in (0..MaxLen) \X {"distinct", "same"} \X (1..MaxSize) \X (0..(MaxSize - 1)) : y[4] < y[3]}}

\* thread t1 is about to call _create_chunks on one of the inputs
InitChunker ==
  /\ EmptyStores(MaxFaults)
  /\ pc = [p \in Procs |-> IF p = "t1" THEN "k_call" ELSE "idle"]
  /\ \E x \in ChunkerInputs : loc = [p \in Procs |-> IF p = "t1" THEN x ELSE NoLoc]
  /\ ret = [p \in Procs |-> NoRet]

\* self._create_chunks(text, document_id) returns its list of chunks
CreateChunksCall(p) ==
  /\ pc[p] = "k_call"
  /\ pc' = [pc EXCEPT ![p] = "done"]
  /\ loc' = [loc EXCEPT ![p] = NoLoc]
  /\ ret' = [ret EXCEPT ![p] =
               [op |-> "create_chunks", status |-> "ok",
                val |-> [text |-> loc[p].text, chunk_size |-> loc[p].chunk_size,
                         chunk_overlap |-> loc[p].chunk_overlap,
                         chunks |-> CreateChunks(loc[p].text, loc[p].chunk_size, loc[p].chunk_overlap)]]]
  /\ UNCHANGED <<fsVars, faults, dbVars, ixVars, job, pre>>

NextChunker == CreateChunksCall("t1")

SpecChunker == InitChunker /\ [][NextChunker]_vars

(***************************************************************************)
(* Chunker._create_chunks, one iteration of its while loop at a time.      *)
(***************************************************************************)
\* a loop body that moves start back by the chunk size
LoopBody_StepsBack(len, S, V, start) ==
  LET adj == IF start > 0 THEN start - S ELSE start
  IN [start |-> adj, end |-> Min(adj + S, len)]

\* lines 93-98: the window [start, end) one iteration cuts
LoopBody(len, S, V, start) ==
  LET adj == IF start > 0 THEN start - V ELSE start
  IN [start |-> adj, end |-> Min(adj + S, len)]

\* thread t1 is about to call _create_chunks on one of the inputs
InitChunkLoop ==
  /\ EmptyStores(MaxFaults)
  /\ pc = [p \in Procs |-> IF p = "t1" THEN "k_enter" ELSE "idle"]
  /\ \E x \in ChunkerInputs : loc = [p \in Procs |-> IF p = "t1" THEN x ELSE NoLoc]
  /\ ret = [p \in Procs |-> NoRet]

\* the chunk made of text[w.start:w.end] with the next sequence number
ChunkOf(text, w, sequence) ==
  [content |-> Slice(text, w.start, w.end), sequence |-> sequence,
   chunk_hash |-> CalculateHash(Slice(text, w.start, w.end))]

\* _create_chunks returns its list (windows: where each chunk was cut)
CreateChunksReturn(p, made, windows) ==
  /\ pc' = [pc EXCEPT ![p] = "done"]
  /\ loc' = [loc EXCEPT ![p] = NoLoc]
  /\ ret' = [ret EXCEPT ![p] =
               [op |-> "create_chunks", status |-> "ok",
                val |-> [text |-> loc[p].text, chunk_size |-> loc[p].chunk_size,
                         chunk_overlap |-> loc[p].chunk_overlap,
                         chunks |-> made, windows |-> windows]]]
  /\ UNCHANGED <<fsVars, faults, dbVars, ixVars, job, pre>>

\* lines 74-89: a text no longer than chunk_size is returned as one chunk,
\* otherwise start = 0, sequence = 0
CreateChunksEnter(p) ==
  /\ pc[p] = "k_enter"
  /\ IF Len(loc[p].text) <= loc[p].chunk_size
     THEN LET w == [start |-> 0, end |-> Len(loc[p].text)]
          IN CreateChunksReturn(p, <<ChunkOf(loc[p].text, w, 0)>>, <<w>>)
     ELSE /\ pc' = [pc EXCEPT ![p] = "k_loop"]
          /\ loc' = [loc EXCEPT ![p] =
                       [op |-> "create_chunks", text |-> loc[p].text, chunk_size |-> loc[p].chunk_size,
                        chunk_overlap |-> loc[p].chunk_overlap,
                        start |-> 0, sequence |-> 0, chunks |-> <<>>, windows |-> <<>>]]
          /\ UNCHANGED <<fsVars, faults, dbVars, ixVars, job, ret, pre>>

\* lines 91-117: one iteration of "while start < len(text)"
LoopIteration(p) ==
  /\ pc[p] = "k_loop"
  /\ loc[p].start < Len(loc[p].text)
  /\ loc[p].sequence < MaxIterations
  /\ LET w == LoopBody(Len(loc[p].text), loc[p].chunk_size, loc[p].chunk_overlap, loc[p].start)
     IN loc' = [loc EXCEPT ![p].chunks = Append(@, ChunkOf(loc[p].text, w, loc[p].sequence)),
                           ![p].windows = Append(@, w),
                           ![p].sequence = @ + 1,
                           ![p].start = w.end]
  /\ UNCHANGED <<fsVars, faults, dbVars, ixVars, pc, job, ret, pre>>

\* lines 91 and 119: the loop condition is false, return chunks
LoopExit(p) ==
  /\ pc[p] = "k_loop"
  /\ ~(loc[p].start < Len(loc[p].text))
  /\ CreateChunksReturn(p, loc[p].chunks, loc[p].windows)

NextChunkLoop == CreateChunksEnter("t1") \/ LoopIteration("t1") \/ LoopExit("t1")

\* the thread that runs the call keeps running
SpecChunkLoop == InitChunkLoop /\ [][NextChunkLoop]_vars /\ WF_vars(NextChunkLoop)

(***************************************************************************)
(* A chunker constructed with arguments, then used on a text.              *)
(***************************************************************************)
\* a caller is about to run Chunker(chunk_size, chunk_overlap) with
\* 0 <= chunk_overlap < chunk_size and to chunk a text with it; job holds the
\* arguments the caller passes
InitConfigured ==
  /\ dirs = {"/v"}
  /\ files = [f \in FilePlaces |-> NoFile]
  /\ edits = 0
  /\ scanned = [v \in VaultIds |-> FALSE]
  /\ faults = MaxFaults
  /\ vaults = {}
  /\ documents = {}
  /\ chunks = {}
  /\ ids = [vault |-> 0, doc |-> 0, chunk |-> {}]
  /\ dbLock = "none"
  /\ index = [v \in VaultIds |-> NoIndex]
  /\ slotOwner = [v \in VaultIds |-> <<>>]
  /\ pc = [p \in Procs |-> IF p = "t1" THEN "k_init" ELSE "idle"]
  /\ \E x \in ChunkerInputs :
       /\ job = [p \in Procs |->
                   IF p = "t1"
                   THEN [active |-> FALSE, chunk_size |-> x.chunk_size, chunk_overlap |-> x.chunk_overlap]
                   ELSE NoJob]
       /\ loc = [p \in Procs |-> IF p = "t1" THEN [op |-> "create_chunks", text |-> x.text] ELSE NoLoc]
  /\ ret = [p \in Procs |-> NoRet]
  /\ pre = [p \in Procs |-> NoPre]

\* Chunker.__init__ sets the attributes that _create_chunks reads
ChunkerConstruct(p) ==
  /\ pc[p] = "k_init"
  /\ pc' = [pc EXCEPT ![p] = "k_enter"]
  /\ LET self == ChunkerInit(job[p].chunk_size, job[p].chunk_overlap)
     IN loc' = [loc EXCEPT ![p] =
                  [op |-> "create_chunks", text |-> loc[p].text,
                   chunk_size |-> self.chunk_size, chunk_overlap |-> self.chunk_overlap]]
  /\ UNCHANGED <<fsVars, faults, dbVars, ixVars, job, ret, pre>>

NextConfigured ==
  \/ ChunkerConstruct("t1")
  \/ CreateChunksEnter("t1")
  \/ LoopIteration("t1")
  \/ LoopExit("t1")

SpecConfigured == InitConfigured /\ [][NextConfigured]_vars

(***************************************************************************)
(* The registry: registrations and deletions of two request threads.       *)
(***************************************************************************)
RegistryIds == 1..MaxRegistered

\* lines 29-38: check the path, look for a vault that owns the canonical path
RegisterCheck(p, path) ==
  /\ pc[p] = "idle"
  /\ pre' = [pre EXCEPT ![p] = Snapshot]
  /\ UNCHANGED <<fsVars, faults, dbVars, ixVars>>
  /\ IF Resolve(path) \notin dirs
     THEN Finish(p, "register", "ValueError",
                 [msg |-> "does not exist or is not a directory", path |-> path])
     ELSE IF OwnerOf(vaults, Resolve(path)) # {}
     THEN Finish(p, "register", "ValueError", [msg |-> "already registered", path |-> path])
     ELSE Goto(p, "r_flush", [op |-> "register", arg |-> path])

\* a vaults table without the unique constraint on path
PathIsFree_NoConstraint(vs, path) == TRUE

\* models.py line 15: path = Column(..., unique=True), checked by the INSERT
PathIsFree(vs, path) == \A x \in vs : x.path # path

\* lines 41-43: db.add(vault), db.flush(): the INSERT takes the database write
\* lock, or raises IntegrityError when a committed row has the path
RegisterFlush(p) ==
  /\ pc[p] = "r_flush"
  /\ dbLock = "none"
  /\ UNCHANGED <<fsVars, faults, vaults, documents, chunks, ixVars, pre>>
  /\ IF ~PathIsFree(vaults, Resolve(loc[p].arg))
     THEN /\ UNCHANGED <<ids, dbLock>>
          /\ Finish(p, "register", "Exception", [msg |-> "IntegrityError", path |-> loc[p].arg])
     ELSE /\ ids.vault < MaxRegistered
          /\ ids' = [ids EXCEPT !.vault = @ + 1]
          /\ dbLock' = p
          /\ Goto(p, "r_commit",
                  [op |-> "register", arg |-> loc[p].arg,
                   vault |-> NewVault(ids.vault + 1, Resolve(loc[p].arg))])

\* leave the session: commit, or roll back and raise
RegisterCommit(p, o) ==
  /\ pc[p] = "r_commit"
  /\ dbLock' = "none"
  /\ UNCHANGED <<fsVars, faults, documents, chunks, ids, ixVars, pre>>
  /\ IF o = "ok"
     THEN /\ vaults' = vaults \cup {loc[p].vault}
          /\ Finish(p, "register", "ok", loc[p].vault)
     ELSE /\ UNCHANGED vaults
          /\ Finish(p, "register", "Exception", [msg |-> "commit failed", path |-> loc[p].arg])

\* a directory is removed from the disk, with the files under it
RmDir(d) ==
  /\ d \in dirs
  /\ edits < MaxEdits
  /\ dirs' = dirs \ {d}
  /\ files' = [f \in FilePlaces |-> IF f[1] = d THEN NoFile ELSE files[f]]
  /\ edits' = edits + 1
  /\ scanned' = [v \in DOMAIN scanned |-> scanned[v] /\ \A x \in VaultById(v) : x.path # d]
  /\ UNCHANGED <<faults, dbVars, ixVars, thVars>>

\* what one vault has gone through: registered, scanned with one file,
\* its document chunked, the chunk embedded by an index build
Levels == {"none", "registered", "scanned", "chunked", "built"}
LevelRank(l) ==
  CASE l = "none" -> 0 [] l = "registered" -> 1 [] l = "scanned" -> 2
    [] l = "chunked" -> 3 [] l = "built" -> 4

\* the stores after vault 1 was registered at /v and vault 2 at /w and taken
\* through the pipeline up to levels l[1] and l[2] ("none": never registered)
Populated(l) ==
  LET root == [v \in RegistryIds |-> IF v = 1 THEN "/v" ELSE "/w"]
      on(v, level) == v \in 1..2 /\ LevelRank(l[v]) >= LevelRank(level)
      text == <<1>>
      c == CreateChunks(text, CHUNK_SIZE, CHUNK_OVERLAP)[1]
  IN /\ dirs = {"/v", "/w"}
     /\ files = [f \in FilePlaces |->
                   IF \E v \in 1..2 : on(v, "scanned") /\ f = <<root[v], <<"a.md">>>>
                   THEN TextFile(text) ELSE NoFile]
     /\ edits = 0
     /\ scanned = [v \in RegistryIds |-> on(v, "scanned")]
     /\ faults = MaxFaults
     /\ vaults = {[NewVault(v, root[v]) EXCEPT !.is_indexed = on(v, "scanned")] :
                    v \in {x \in 1..2 : on(x, "registered")}}
     /\ documents = {[id |-> v, vault_id |-> v, path |-> <<"a.md">>, filename |-> "a.md",
                      content_hash |-> CalculateHash(text)] : v \in {x \in 1..2 : on(x, "scanned")}}
     /\ chunks = {[NewChunk(v, v, c) EXCEPT !.embedding_stored = on(v, "built")] :
                    v \in {x \in 1..2 : on(x, "chunked")}}
     /\ ids = [vault |-> IF on(2, "registered") THEN 2 ELSE IF on(1, "registered") THEN 1 ELSE 0,
               doc |-> IF on(2, "scanned") THEN 2 ELSE IF on(1, "scanned") THEN 1 ELSE 0,
               chunk |-> {v \in 1..2 : on(v, "chunked")}]
     /\ dbLock = "none"
     /\ index = [v \in RegistryIds |->
                   IF on(v, "built") THEN [exists |-> TRUE, vecs |-> <<RemoteEmbedding(c.content)>>]
                   ELSE NoIndex]
     /\ slotOwner = [v \in RegistryIds |->
                       IF on(v, "built")
                       THEN <<[chunk |-> v, build |-> 1, vec |-> RemoteEmbedding(c.content)]>>
                       ELSE <<>>]

InitRegistry ==
  /\ \E l \in [1..2 -> Levels] : (l[1] = "none" => l[2] = "none") /\ Populated(l)
  /\ pc = [p \in Procs |-> "idle"]
  /\ loc = [p \in Procs |-> NoLoc]
  /\ job = [p \in Procs |-> NoJob]
  /\ ret = [p \in Procs |-> NoRet]
  /\ pre = [p \in Procs |-> NoPre]

\* the calls of either thread on the registry
RegistryStep(p) ==
  \/ \E path \in PathArgs : RegisterCheck(p, path)
  \/ RegisterFlush(p)
  \/ \E o \in Outcomes : RegisterCommit(p, o)
  \/ \E v \in RegistryIds : DeleteVault(p, v)
  \/ Ack(p)

\* the calls on a vault that may be gone, made while no other request runs
LookupStep(p) ==
  \/ \E v \in RegistryIds : ScanStart(p, v)
  \/ \E o \in Outcomes : ScanCommit(p, o)
  \/ \E v \in RegistryIds : BuildStart(p, v)
  \/ BuildRead(p)
  \/ BuildWrite(p)
  \/ \E o \in Outcomes : BuildCommit(p, o)

NextRegistry ==
  \/ \E d \in Dirs : RmDir(d)
  \/ \E p \in Procs : RegistryStep(p)
  \/ (Alone("t1") /\ LookupStep("t1"))

SpecRegistry == InitRegistry /\ [][NextRegistry]_vars

\* queries and deletions of two request threads, on vaults that are
\* registered, were never registered, or get deleted
NextQuery ==
  \E p \in Procs :
    \/ \E v \in RegistryIds : DeleteVault(p, v)
    \/ \E v \in RegistryIds, q \in QueryTexts, k \in 1..MaxK, e \in EmbedOutcomes :
         QueryCheck(p, v, q, k, e[1], e[2])
    \/ QuerySearch(p)
    \/ Ack(p)

SpecQuery == InitRegistry /\ [][NextQuery]_vars

(***************************************************************************)
(* The embedders called on their own.                                      *)
(***************************************************************************)
\* the texts given to the embedders: empty, whitespace only, and two others
EmbedTexts == { <<>>, <<0>>, <<1>>, <<2, 1>> }

\* the lists of at most n texts
RECURSIVE TextLists(_)
TextLists(n) ==
  IF n = 0 THEN { <<>> }
  ELSE TextLists(n - 1) \cup {Append(l, t) : l \in {x \in TextLists(n - 1) : Len(x) = n - 1}, t \in EmbedTexts}

\* a call of one of the four operations; ok1, ok2: whether a first and a
\* second call of the remote service would succeed
EmbedderInputs ==
  {[op |-> o, texts |-> <<t>>, ok1 |-> e[1], ok2 |-> e[2]] :
      o \in {"embed_text", "local_embed_text"}, t \in EmbedTexts, e \in BOOLEAN \X BOOLEAN}
  \cup {[op |-> o, texts |-> l, ok1 |-> e[1], ok2 |-> e[2]] :
      o \in {"embed_batch", "local_embed_batch"}, l \in TextLists(MaxBatch), e \in BOOLEAN \X BOOLEAN}

\* thread t1 is about to make one of the calls
InitEmbedder ==
  /\ EmptyStores(MaxFaults)
  /\ \E x \in EmbedderInputs :
       /\ loc = [p \in Procs |-> IF p = "t1" THEN x ELSE NoLoc]
       /\ pc = [p \in Procs |-> IF p = "t1" THEN x.op ELSE "idle"]
  /\ ret = [p \in Procs |-> NoRet]

\* the call returns: the input, the vectors, the number of calls of the remote
\* service (of model.encode for LocalEmbedder) and the texts sent
EmbedderReturn(p, dimension, vecs, calls, sent) ==
  /\ pc' = [pc EXCEPT ![p] = "done"]
  /\ loc' = [loc EXCEPT ![p] = NoLoc]
  /\ ret' = [ret EXCEPT ![p] =
               [op |-> loc[p].op, status |-> "ok",
                val |-> [texts |-> loc[p].texts, ok1 |-> loc[p].ok1, ok2 |-> loc[p].ok2,
                         dimension |-> dimension, vecs |-> vecs, calls |-> calls, sent |-> sent]]]
  /\ UNCHANGED <<fsVars, faults, dbVars, ixVars, job, pre>>

\* OpenAIEmbedder.embed_text(text)
EmbedTextCall(p) ==
  /\ pc[p] = "embed_text"
  /\ LET e == EmbedText(loc[p].texts[1], loc[p].ok1, loc[p].ok2)
     IN EmbedderReturn(p, EMBEDDING_DIMENSION, <<e.vec>>, e.calls,
                       IF e.calls > 0 THEN loc[p].texts ELSE <<>>)

\* OpenAIEmbedder.embed_batch(texts)
EmbedBatchCall(p) ==
  /\ pc[p] = "embed_batch"
  /\ LET e == EmbedBatch(loc[p].texts, loc[p].ok1)
     IN EmbedderReturn(p, EMBEDDING_DIMENSION, e.vecs, e.calls, e.sent)

\* LocalEmbedder.embed_text(text)
LocalEmbedTextCall(p) ==
  /\ pc[p] = "local_embed_text"
  /\ LET e == LocalEmbedText(loc[p].texts[1])
     IN EmbedderReturn(p, LOCAL_DIMENSION, <<e.vec>>, e.calls,
                       IF e.calls > 0 THEN loc[p].texts ELSE <<>>)

\* LocalEmbedder.embed_batch(texts)
LocalEmbedBatchCall(p) ==
  /\ pc[p] = "local_embed_batch"
  /\ LET e == LocalEmbedBatch(loc[p].texts)
     IN EmbedderReturn(p, LOCAL_DIMENSION, e.vecs, e.calls, e.sent)

NextEmbedder ==
  \/ EmbedTextCall("t1")
  \/ EmbedBatchCall("t1")
  \/ LocalEmbedTextCall("t1")
  \/ LocalEmbedBatchCall("t1")

SpecEmbedder == InitEmbedder /\ [][NextEmbedder]_vars

(***************************************************************************)
(* process_vault called again while nothing changes on disk.               *)
(***************************************************************************)
\* the service calls process_vault makes, lines 126-140
ProcessCalls(p) ==
  \/ \E v \in VaultIds : ScanStart(p, v)
  \/ \E o \in Outcomes : ScanCommit(p, o)
  \/ ProcessList(p)
  \/ \E d \in DocIdArgs : ChunkStart(p, d)
  \/ ChunkDelete(p)
  \/ \E o \in Outcomes : ChunkInsert(p, o)
  \/ \E o \in Outcomes : ChunkCommit(p, o)
  \/ \E v \in VaultIds : BuildStart(p, v)
  \/ BuildRead(p)
  \/ BuildWrite(p)
  \/ \E o \in Outcomes : BuildCommit(p, o)

\* one POST /vaults/{id}/process request from its start to its response
ProcessRequest(p) ==
  \/ \E v \in VaultIds : ProcessStart(p, v)
  \/ (job[p].active /\ ProcessCalls(p))
  \/ Ack(p)

\* thread t1 registers the vault and sends process requests; while t1 holds
\* the response of a request that succeeded, thread t2 sends the next one.
\* The files change only while no request is running or held (FsEdit).
NextTwice ==
  \/ Env
  \/ (Alone("t1") /\ ((\E path \in PathArgs : RegisterVault("t1", path)) \/ ProcessRequest("t1")))
  \/ (pc["t1"] = "done" /\ ret["t1"].op = "process" /\ ret["t1"].status = "ok" /\ ProcessRequest("t2"))

SpecTwice == Init /\ [][NextTwice]_vars

(***************************************************************************)
(* Scans of two request threads.                                           *)
(***************************************************************************)
\* POST /vaults/{id}/scan: the scan reads the documents of the vault at its
\* start and writes at its commit; nothing keeps another scan out in between
ScanRequest(p) ==
  \/ \E v \in VaultIds : ScanStart(p, v)
  \/ \E o \in Outcomes : ScanCommit(p, o)
  \/ Ack(p)

\* thread t1 registers the vault while no request runs; both threads scan
NextScans ==
  \/ Env
  \/ (Alone("t1") /\ \E path \in PathArgs : RegisterVault("t1", path))
  \/ \E p \in Procs : ScanRequest(p)

SpecScans == Init /\ [][NextScans]_vars

(***************************************************************************)
(* process_vault on a vault whose files are removed between requests.      *)
(***************************************************************************)
\* the server starts on an empty database; the directory /v already holds
\* any files
InitOnDisk ==
  /\ dirs = {"/v"}
  /\ files \in [FilePlaces -> FileStates]
  /\ \A place \in FilePlaces : place[1] \notin dirs => files[place] = NoFile
  /\ edits = 0
  /\ scanned = [v \in VaultIds |-> FALSE]
  /\ faults = 0
  /\ vaults = {}
  /\ documents = {}
  /\ chunks = {}
  /\ ids = [vault |-> 0, doc |-> 0, chunk |-> {}]
  /\ dbLock = "none"
  /\ index = [v \in VaultIds |-> NoIndex]
  /\ slotOwner = [v \in VaultIds |-> <<>>]
  /\ pc = [p \in Procs |-> "idle"]
  /\ loc = [p \in Procs |-> NoLoc]
  /\ job = [p \in Procs |-> NoJob]
  /\ ret = [p \in Procs |-> NoRet]
  /\ pre = [p \in Procs |-> NoPre]

\* one request at a time: register, then process requests, while files change
NextOnDisk ==
  \/ Env
  \/ \E path \in PathArgs : RegisterVault("t1", path)
  \/ ProcessRequest("t1")

SpecOnDisk == InitOnDisk /\ [][NextOnDisk]_vars

(***************************************************************************)
(* Properties.                                                             *)
(***************************************************************************)
\* thread p holds the response of a call of op that returned normally
Returned(p, op) == pc[p] = "done" /\ ret[p].op = op /\ ret[p].status = "ok"

\* thread p holds the response of a call of op that raised
Raised(p, op) == pc[p] = "done" /\ ret[p].op = op /\ ret[p].status # "ok"

ChunkIdsIn(cs) == {c.id : c \in cs}
SlotChunks(v) == {slotOwner[v][i].chunk : i \in 1..Len(slotOwner[v])}

\* the index of vault v was written by one build, which embedded every chunk
\* of the vault, and no chunk row was ever deleted or lost
OneBuildNoDelete(v) ==
  /\ slotOwner[v] # <<>>
  /\ \A i \in 1..Len(slotOwner[v]) : slotOwner[v][i].build = 1
  /\ Len(index[v].vecs) = Len(slotOwner[v])
  /\ ids.chunk = ChunkIdsIn(chunks)
  /\ ChunkIdsIn(ChunksOfVault(chunks, documents, v)) = SlotChunks(v)
  /\ \A c \in ChunksOfVault(chunks, documents, v) : c.embedding_stored

\* C1: after register, scan, chunking and one index build with no chunk ever
\* deleted, every result search returns for index position p is the chunk whose
\* vector the build appended at position p, with that chunk's own document
\* filename and path.
C1_ResultIsSlotOwner ==
  \A p \in Procs :
    (Returned(p, "search") /\ OneBuildNoDelete(ret[p].val.vault)) =>
      \A i \in 1..Len(ret[p].val.results) :
        LET r == ret[p].val.results[i]
        IN r.idx >= 0 =>
             /\ r.chunk_id = slotOwner[ret[p].val.vault][r.idx + 1].chunk
             /\ \E c \in chunks, d \in documents :
                  /\ c.id = r.chunk_id /\ c.document_id = d.id
                  /\ r.document_id = d.id
                  /\ r.document_name = d.filename /\ r.document_path = d.path

\* the index file of vault v holds, slot by slot, the vectors embedded so far
SlotsMatchHistory(v) ==
  /\ Len(index[v].vecs) = Len(slotOwner[v])
  /\ \A i \in 1..Len(slotOwner[v]) : index[v].vecs[i] = slotOwner[v][i].vec

\* C2: under serialized operations the index of every vault is append-only:
\* the vector at position p is the vector of the p-th chunk ever embedded for
\* the vault, and the index before a step is a prefix of the index after it
\* (nothing is reordered, removed or compacted, also when chunks are deleted).
C2_AppendOnly ==
  [][\A v \in VaultIds :
       /\ SlotsMatchHistory(v)'
       /\ IsPrefix(index[v].vecs, index'[v].vecs)
       /\ IsPrefix(slotOwner[v], slotOwner'[v])
       /\ index[v].exists => index'[v].exists]_vars

\* two builds have written the index and a chunk with a slot has been deleted
C2_Witness ==
  \E v \in VaultIds :
    /\ Len(index[v].vecs) >= 2
    /\ BuildsOf(slotOwner[v]) >= 2
    /\ SlotChunks(v) \ ChunkIdsIn(chunks) # {}

\* C3: a chunk row is created with embedding_stored false; the flag becomes
\* true only in the commit of an index build, after the index file holding the
\* chunk's vector was written; it never goes back to false for the same row.
\* No step of scan, chunking or search sets it.
C3_EmbeddedFlag ==
  [][\A c \in chunks' :
       LET old == {x \in chunks : x.id = c.id}
       IN /\ old = {} => ~c.embedding_stored
          /\ (\E x \in old : x.embedding_stored) => c.embedding_stored
          /\ (c.embedding_stored /\ \E x \in old : ~x.embedding_stored) =>
               \E p \in Procs :
                 /\ pc[p] = "b_commit" /\ pc'[p] # "b_commit"
                 /\ index[loc[p].vault].exists
                 /\ \E i \in 1..Len(index[loc[p].vault].vecs) :
                      /\ i <= Len(slotOwner[loc[p].vault])
                      /\ slotOwner[loc[p].vault][i].chunk = c.id]_vars

\* a build has returned after embedding chunks, whose rows are now marked
C3_Witness ==
  \E p \in Procs :
    /\ Returned(p, "build") /\ ret[p].val.chunks_processed > 0
    /\ \E c \in chunks : c.embedding_stored

\* C4: an index build is all-or-nothing: when it reports failure the index
\* file and every chunk row (the embedded flags) are as they were when it
\* started, also when the failure comes after the index file was written.
C4_AllOrNothing ==
  \A p \in Procs :
    Raised(p, "build") => index = pre[p].index /\ chunks = pre[p].chunks


\* C7: a build that succeeds over n > 0 pending chunks returns
\* chunks_processed = vectors_added = n, makes the index n vectors longer
\* (creating the file if there was none) and leaves none of the chunks that
\* were pending when it started with embedding_stored false.
C7_BuildCounts ==
  \A p \in Procs :
    Returned(p, "build") =>
      LET v == ret[p].val.vault
          pending == PendingChunks(pre[p].chunks, pre[p].documents, v)
          n == Cardinality(pending)
      IN n > 0 =>
           /\ ret[p].val.chunks_processed = n
           /\ ret[p].val.vectors_added = n
           /\ index[v].exists
           /\ Len(index[v].vecs) = Len(pre[p].index[v].vecs) + n
           /\ IsPrefix(pre[p].index[v].vecs, index[v].vecs)
           /\ \A c \in pending : \A x \in chunks : x.id = c.id => x.embedding_stored

\* a build has added two vectors to an index file that held one already
C7_Witness ==
  \E p \in Procs :
    /\ Returned(p, "build")
    /\ ret[p].val.chunks_processed = 2
    /\ pre[p].index[ret[p].val.vault].exists
    /\ Len(pre[p].index[ret[p].val.vault].vecs) = 1

\* C8: a build on a vault with no pending chunk returns chunks_processed = 0
\* and vectors_added = 0, does not call the embedding provider and leaves the
\* index file (present or absent) and every chunk row as they were.
C8_NothingPending ==
  \A p \in Procs :
    (Returned(p, "build")
       /\ PendingChunks(pre[p].chunks, pre[p].documents, ret[p].val.vault) = {}) =>
      /\ ret[p].val.chunks_processed = 0
      /\ ret[p].val.vectors_added = 0
      /\ ret[p].val.embed_calls = 0
      /\ index = pre[p].index
      /\ chunks = pre[p].chunks

\* a build has returned on a vault whose chunks were all embedded already
C8_Witness ==
  \E p \in Procs :
    /\ Returned(p, "build")
    /\ PendingChunks(pre[p].chunks, pre[p].documents, ret[p].val.vault) = {}
    /\ ChunksOfVault(pre[p].chunks, pre[p].documents, ret[p].val.vault) # {}
    /\ pre[p].index[ret[p].val.vault].exists

\* C9: process_vault runs the scan, then re-chunks exactly the documents this
\* scan counted as new or updated, then builds the index; a document counted
\* as unchanged keeps its chunk rows and the embedded flags they had.
C9_RechunksChanged ==
  \A p \in Procs :
    Returned(p, "process") =>
      LET docs == DocsOf(documents, ret[p].vault_id)
          cl == ret[p].classes
          changed == {d \in docs : d.path \in DOMAIN cl /\ cl[d.path] \in {"new", "updated"}}
          kept == {d \in docs : d.path \in DOMAIN cl /\ cl[d.path] = "unchanged"}
      IN /\ Range(ret[p].documents_processed) = {d.id : d \in changed}
         /\ \A d \in kept : \A c \in ChunksOfDoc(pre[p].chunks, d.id) :
              \E x \in chunks : x.id = c.id /\ (c.embedding_stored => x.embedding_stored)

\* C10: every summary scan returns has total = new + updated + unchanged +
\* errors, every enumerated file being counted once: a file that cannot be read
\* as an error, a file that can be read as unchanged iff a Document exists at
\* its relative path with an equal content hash, as updated iff one exists
\* with a different hash (the stored hash is then replaced), as new iff none
\* exists (a Document is then inserted).
C10_ScanClassification ==
  \A p \in Procs :
    Returned(p, "scan") =>
      LET v == ret[p].val.vault
          st == ret[p].val.stats
          cl == ret[p].val.classes
          root == (CHOOSE x \in pre[p].vaults : x.id = v).path
      IN /\ st.total_files = st.new_files + st.updated_files + st.unchanged_files + st.errors
         /\ DOMAIN cl = {rel \in RelPaths : <<root, rel>> \in FilePlaces /\ pre[p].files[<<root, rel>>] # NoFile}
         /\ st.total_files = Cardinality(DOMAIN cl)
         /\ st.new_files = Cardinality({rel \in DOMAIN cl : cl[rel] = "new"})
         /\ st.updated_files = Cardinality({rel \in DOMAIN cl : cl[rel] = "updated"})
         /\ st.unchanged_files = Cardinality({rel \in DOMAIN cl : cl[rel] = "unchanged"})
         /\ st.errors = Cardinality({rel \in DOMAIN cl : cl[rel] = "error"})
         /\ \A rel \in DOMAIN cl :
              LET f == pre[p].files[<<root, rel>>]
                  had == {d \in DocsOf(pre[p].documents, v) : d.path = rel}
                  has == {d \in DocsOf(documents, v) : d.path = rel}
              IN IF f.kind # "text"
                 THEN cl[rel] = "error" /\ has = had
                 ELSE /\ cl[rel] = "unchanged" <=> \E d \in had : d.content_hash = CalculateHash(f.text)
                      /\ cl[rel] = "updated" <=> \E d \in had : d.content_hash # CalculateHash(f.text)
                      /\ cl[rel] = "new" <=> had = {}
                      /\ cl[rel] = "unchanged" => has = had
                      /\ cl[rel] = "updated" =>
                           has = {[d EXCEPT !.content_hash = CalculateHash(f.text)] : d \in had}
                      /\ cl[rel] = "new" =>
                           /\ Cardinality(has) = 1
                           /\ \A d \in has : /\ d.content_hash = CalculateHash(f.text)
                                             /\ d.filename = FileName(rel)
                                             /\ d.id \notin {e.id : e \in pre[p].documents}

\* a scan has returned a summary that counts a file as updated
C10_Witness ==
  \E p \in Procs :
    /\ Returned(p, "scan")
    /\ \E rel \in DOMAIN ret[p].val.classes : ret[p].val.classes[rel] = "updated"


\* C5: the index builds of one vault are serialized: two builds of the same
\* vault are never both between reading the index file and writing it back,
\* and the vector of every chunk marked as embedded is in the index file.
C5_BuildsSerialized ==
  /\ \A p, q \in Procs :
       (p # q /\ pc[p] = "b_write" /\ pc[q] = "b_write") => loc[p].vault # loc[q].vault
  /\ \A v \in VaultIds : \A c \in ChunksOfVault(chunks, documents, v) :
       c.embedding_stored =>
         \E i \in 1..Len(index[v].vecs) : i <= Len(slotOwner[v]) /\ slotOwner[v][i].chunk = c.id

\* the rows make up the whole chunk set of the content, none of them embedded
CompleteSet(rows, d, content) ==
  /\ Cardinality(rows) = Len(ChunksFor(content))
  /\ \A i \in 1..Len(ChunksFor(content)) :
       \E c \in rows : /\ c.document_id = d /\ ~c.embedding_stored
                       /\ c.sequence = ChunksFor(content)[i].sequence
                       /\ c.content = ChunksFor(content)[i].content

\* C6: re-chunking replaces the chunk set of a document in one transaction:
\* the committed rows of a document, which is what another session reads, go
\* in one step from the complete old set to the complete new set of the file
\* content read, never through an empty or a mixed set, and a call that raises
\* (file not read, insert or commit failed) leaves the old set in place.
C6_ChunkSetReplaced ==
  [][/\ \A d \in {x.id : x \in documents'} :
          ChunkIdsIn(ChunksOfDoc(chunks', d)) # ChunkIdsIn(ChunksOfDoc(chunks, d)) =>
            \E p \in Procs :
              /\ pc[p] = "c_commit" /\ loc[p].document_id = d
              /\ pc'[p] # "c_commit"
              /\ ChunksOfDoc(chunks', d) = loc[p].added
              /\ ChunkIdsIn(loc[p].added) \cap ChunkIdsIn(chunks) = {}
              /\ CompleteSet(ChunksOfDoc(chunks', d), d, loc[p].content)
     /\ \A p \in Procs :
          (/\ pc[p] # "done" /\ pc'[p] = "done" /\ ret'[p].status # "ok"
           /\ \/ ret'[p].op = "chunk"
              \/ ret'[p].op = "process" /\ ret'[p].failed = "chunk") => chunks' = chunks]_vars

\* the new chunk set of a document that has chunks waits for its commit while
\* the other thread is in a build that has fetched the chunks of the vault
C6_Witness ==
  /\ pc["t1"] = "c_commit"
  /\ ChunksOfDoc(chunks, loc["t1"].document_id) # {}
  /\ pc["t2"] \in {"b_read", "b_write"}


\* the files under the root of vault v, as thread p's call found them
FilesSeen(p, v) ==
  LET root == (CHOOSE x \in pre[p].vaults : x.id = v).path
  IN {rel \in RelPaths : <<root, rel>> \in FilePlaces /\ pre[p].files[<<root, rel>>] # NoFile}

ReadableSeen(p, v) ==
  LET root == (CHOOSE x \in pre[p].vaults : x.id = v).path
  IN {rel \in FilesSeen(p, v) : pre[p].files[<<root, rel>>].kind = "text"}

\* thread p holds the summary of a scan of a vault that had been scanned
\* before, with no change of the files between the two runs
ScannedAgain(p) == Returned(p, "scan") /\ pre[p].scanned[ret[p].val.vault]

\* C11 as stated: the second of two scans with no change of the files between
\* them reports new = 0, updated = 0, unchanged = N (the number of files) and
\* errors = 0, and changes no Document row.
C11_SecondScanAllUnchanged ==
  \A p \in Procs :
    ScannedAgain(p) =>
      /\ ret[p].val.stats.new_files = 0
      /\ ret[p].val.stats.updated_files = 0
      /\ ret[p].val.stats.unchanged_files = Cardinality(FilesSeen(p, ret[p].val.vault))
      /\ ret[p].val.stats.errors = 0
      /\ documents = pre[p].documents

\* C11 amended: the second of two scans with no change of the files between
\* them reports new = 0, updated = 0, unchanged = the number of files that can
\* be read and errors = the number of files that cannot (so unchanged = N and
\* errors = 0 when every file can be read), and changes no Document row.
C11_SecondScanStable ==
  \A p \in Procs :
    ScannedAgain(p) =>
      /\ ret[p].val.stats.new_files = 0
      /\ ret[p].val.stats.updated_files = 0
      /\ ret[p].val.stats.unchanged_files = Cardinality(ReadableSeen(p, ret[p].val.vault))
      /\ ret[p].val.stats.errors =
           Cardinality(FilesSeen(p, ret[p].val.vault) \ ReadableSeen(p, ret[p].val.vault))
      /\ ret[p].val.stats.total_files = Cardinality(FilesSeen(p, ret[p].val.vault))
      /\ documents = pre[p].documents

\* a second scan has returned for a vault with a file that can be read
C11_Witness ==
  \E p \in Procs : ScannedAgain(p) /\ ReadableSeen(p, ret[p].val.vault) # {}


\* C12: a file that cannot be read or parsed during a scan is counted in
\* errors and does not end the scan: the scan returns its summary, every other
\* file is classified, and the Document insert or hash update of every file
\* that could be read is committed.
C12_ErrorsDoNotAbort ==
  \A p \in Procs :
    /\ Raised(p, "scan") =>
         ret[p].val.msg \in {"vault not found", "vault path does not exist", "commit failed"}
    /\ Returned(p, "scan") =>
         LET v == ret[p].val.vault
             root == (CHOOSE x \in pre[p].vaults : x.id = v).path
         IN /\ ret[p].val.stats.errors = Cardinality(FilesSeen(p, v) \ ReadableSeen(p, v))
            /\ \A rel \in ReadableSeen(p, v) :
                 /\ ret[p].val.classes[rel] \in {"new", "updated", "unchanged"}
                 /\ \E d \in DocsOf(documents, v) :
                      /\ d.path = rel
                      /\ d.content_hash = CalculateHash(pre[p].files[<<root, rel>>].text)

\* a scan has returned after one file could not be read and another was new
C12_Witness ==
  \E p \in Procs :
    /\ Returned(p, "scan")
    /\ ret[p].val.stats.errors = 1
    /\ ret[p].val.stats.new_files = 1

\* thread p's scan completes in this step (inside process_vault: goes on to
\* list the documents)
ScanCompletes(p) ==
  /\ pc[p] = "s_commit"
  /\ \/ pc'[p] = "p_list"
     \/ pc'[p] = "done" /\ ret'[p].status = "ok"

\* C13: the is_indexed flag of a vault is false when the vault is registered
\* and stays false until a scan of the vault completes; every scan that
\* completes sets it, whatever the number of files that failed; no other step
\* sets it and no step resets it.
C13_IsIndexed ==
  [][/\ \A y \in vaults' :
          LET old == {x \in vaults : x.id = y.id}
          IN /\ old = {} => ~y.is_indexed
             /\ (\E x \in old : x.is_indexed) => y.is_indexed
             /\ (y.is_indexed /\ \E x \in old : ~x.is_indexed) =>
                  \E p \in Procs : ScanCompletes(p) /\ loc[p].vault = y.id
     /\ \A p \in Procs :
          ScanCompletes(p) => \E y \in vaults' : y.id = loc[p].vault /\ y.is_indexed]_vars

\* a scan in which every file failed has returned and the vault is flagged
C13_Witness ==
  \E p \in Procs :
    /\ Returned(p, "scan")
    /\ ret[p].val.stats.total_files >= 1
    /\ ret[p].val.stats.errors = ret[p].val.stats.total_files
    /\ \E x \in vaults : x.id = ret[p].val.vault /\ x.is_indexed
    /\ \E x \in pre[p].vaults : x.id = ret[p].val.vault /\ ~x.is_indexed

\* C14: in every state reached by register, scan, chunk, build and delete
\* calls made one after the other, no two Document rows of the same vault
\* have the same relative path.
C14_UniquePaths ==
  \A d, e \in documents : (d.vault_id = e.vault_id /\ d.path = e.path) => d = e

\* a vault with two documents has been scanned a second time
C14_Witness ==
  /\ Cardinality(documents) = 2
  /\ \E p \in Procs : ScannedAgain(p)


\* C15: for every index, query and k, search returns at most k results, in
\* non-decreasing order of the distance between the query vector and the
\* vector at the matched position, also when matched positions are skipped.
C15_AtMostKSorted ==
  \A p \in Procs :
    Returned(p, "search") =>
      LET rs == ret[p].val.results
      IN /\ Len(rs) <= ret[p].val.top_k
         /\ \A i, j \in 1..Len(rs) : i < j => rs[i].dist <= rs[j].dist
         /\ \A i \in 1..Len(rs) :
              rs[i].idx >= 0 =>
                rs[i].dist = L2(index[ret[p].val.vault].vecs[rs[i].idx + 1], ret[p].val.query)

\* a search for three neighbours has returned two results at different
\* distances, one matched position having been skipped
C15_Witness ==
  \E p \in Procs :
    /\ Returned(p, "search")
    /\ ret[p].val.top_k = 3
    /\ Len(index[ret[p].val.vault].vecs) = 3
    /\ Len(ret[p].val.results) = 2
    /\ ret[p].val.results[1].dist < ret[p].val.results[2].dist


\* the stores are as they were when thread p's call started
StoresUnchanged(p) ==
  /\ vaults = pre[p].vaults /\ documents = pre[p].documents /\ chunks = pre[p].chunks
  /\ index = pre[p].index /\ files = pre[p].files

\* C16: search raises its not-found error exactly when the vault has no index
\* file, and then changes nothing; on an index file that holds no vector (which
\* no build writes, so only with no chunk of the vault marked as embedded) it
\* returns the empty list.
C16_NotFoundIffNoIndex ==
  /\ \A p \in Procs :
       /\ Raised(p, "search") =>
            /\ ret[p].val.msg = "no index found"
            /\ ~pre[p].index[ret[p].val.vault].exists
            /\ StoresUnchanged(p)
       /\ Returned(p, "search") => pre[p].index[ret[p].val.vault].exists
  /\ \A v \in VaultIds, q \in QueryTexts, k \in 1..MaxK :
       (\A c \in ChunksOfVault(chunks, documents, v) : ~c.embedding_stored) =>
         SearchResults(FaissSearch(<<>>, EmbedText(q, TRUE, TRUE).vec, k), chunks, documents, v) = <<>>

\* a search has raised on a vault that has chunks and no index file yet
C16_Witness ==
  \E p \in Procs :
    /\ Raised(p, "search")
    /\ ChunksOfVault(chunks, documents, ret[p].val.vault) # {}


\* the number of chunks of vault v that are marked as embedded
EmbeddedCount(v) ==
  Cardinality({c \in ChunksOfVault(chunks, documents, v) : c.embedding_stored})

\* the positions of the slots that lie before position n, in slot order
PositionsBelow(slots, n) ==
  LET Below(s) == s.idx < n
      kept == SelectSeq(slots, Below)
  IN [i \in 1..Len(kept) |-> kept[i].idx]

\* C17: when the nearest-neighbour search gives a position that is greater
\* than or equal to the number of embedded chunks of the vault, search leaves
\* that position out of the results, keeps the others and raises no error.
C17_SkipsPositionsAhead ==
  \A p \in Procs :
    /\ Raised(p, "search") => ~pre[p].index[ret[p].val.vault].exists
    /\ (Returned(p, "search") /\ EmbeddedCount(ret[p].val.vault) > 0) =>
         LET v == ret[p].val.vault
             rs == ret[p].val.results
             slots == FaissSearch(index[v].vecs, ret[p].val.query, ret[p].val.top_k)
         IN /\ \A i \in 1..Len(rs) : rs[i].idx < EmbeddedCount(v)
            /\ [i \in 1..Len(rs) |-> rs[i].idx] = PositionsBelow(slots, EmbeddedCount(v))

\* a search has matched only positions of the index, one of them past the
\* embedded chunks of the vault, and has returned the others
C17_Witness ==
  \E p \in Procs :
    /\ Returned(p, "search")
    /\ EmbeddedCount(ret[p].val.vault) > 0
    /\ ret[p].val.top_k <= Len(index[ret[p].val.vault].vecs)
    /\ Len(ret[p].val.results) < ret[p].val.top_k
    /\ Len(ret[p].val.results) > 0

\* the end of the i-th window (i = 1 for chunk 0) as the recurrence states it:
\* chunk 0 ends at S, a later chunk at min(previous end - V + S, len)
RECURSIVE WindowEnd(_, _, _, _)
WindowEnd(len, S, V, i) ==
  IF i = 1 THEN S ELSE Min(WindowEnd(len, S, V, i - 1) - V + S, len)

\* the start of the i-th window: 0 for chunk 0, the previous end minus V later
WindowStart(len, S, V, i) == IF i = 1 THEN 0 ELSE WindowEnd(len, S, V, i - 1) - V

\* C18: for a text longer than S (0 <= V < S) chunk 0 is text[0:S], every later
\* chunk starts at the previous chunk's end minus V and ends at
\* min(start + S, len), sequence numbers count from 0, and the last chunk is
\* the first one whose window ends at len.
C18_Windows ==
  \A p \in Procs :
    (Returned(p, "create_chunks") /\ Len(ret[p].val.text) > ret[p].val.chunk_size) =>
      LET T == ret[p].val.text
          S == ret[p].val.chunk_size
          V == ret[p].val.chunk_overlap
          cs == ret[p].val.chunks
      IN /\ Len(cs) >= 2
         /\ \A i \in 1..Len(cs) :
              /\ cs[i].content = SubSeq(T, WindowStart(Len(T), S, V, i) + 1, WindowEnd(Len(T), S, V, i))
              /\ cs[i].sequence = i - 1
              /\ (WindowEnd(Len(T), S, V, i) = Len(T)) <=> (i = Len(cs))

\* the example: 30 different characters, S = 10, V = 2 give the four windows
\* [0,10), [8,18), [16,26), [24,30)
C18_Witness ==
  \E p \in Procs :
    /\ Returned(p, "create_chunks")
    /\ ret[p].val.text = [i \in 1..30 |-> i]
    /\ ret[p].val.chunk_size = 10
    /\ ret[p].val.chunk_overlap = 2
    /\ [i \in 1..Len(ret[p].val.chunks) |-> ret[p].val.chunks[i].content] =
         << [i \in 1..10 |-> i], [i \in 1..10 |-> 8 + i],
            [i \in 1..10 |-> 16 + i], [i \in 1..6 |-> 24 + i] >>

\* C19: a text no longer than S, the empty text included, gives exactly one
\* chunk, whose content is the text and whose sequence number is 0.
C19_SingleChunk ==
  \A p \in Procs :
    (Returned(p, "create_chunks") /\ Len(ret[p].val.text) <= ret[p].val.chunk_size) =>
      /\ Len(ret[p].val.chunks) = 1
      /\ ret[p].val.chunks[1].content = ret[p].val.text
      /\ ret[p].val.chunks[1].sequence = 0

\* the empty text has been chunked
C19_Witness ==
  \E p \in Procs :
    /\ Returned(p, "create_chunks")
    /\ ret[p].val.text = <<>>
    /\ Len(ret[p].val.chunks) = 1

\* chunk 0 followed by every later chunk without its first V characters
RECURSIVE Reassemble(_, _, _)
Reassemble(cs, V, i) ==
  IF i > Len(cs) THEN <<>>
  ELSE (IF i = 1 THEN cs[i].content ELSE SubSeq(cs[i].content, V + 1, Len(cs[i].content)))
       \o Reassemble(cs, V, i + 1)

\* C20: for a text longer than S (0 <= V < S), chunk 0 joined with every later
\* chunk minus its first V characters, in sequence order, is the text again.
C20_Lossless ==
  \A p \in Procs :
    (Returned(p, "create_chunks") /\ Len(ret[p].val.text) > ret[p].val.chunk_size) =>
      /\ \A i \in 1..Len(ret[p].val.chunks) : ret[p].val.chunks[i].sequence = i - 1
      /\ Reassemble(ret[p].val.chunks, ret[p].val.chunk_overlap, 1) = ret[p].val.text

\* a text of different characters cut into at least three overlapping chunks
C20_Witness ==
  \E p \in Procs :
    /\ Returned(p, "create_chunks")
    /\ Len(ret[p].val.text) > ret[p].val.chunk_size
    /\ ret[p].val.chunk_overlap > 0
    /\ Len(ret[p].val.chunks) >= 3
    /\ \A i, j \in 1..Len(ret[p].val.text) :
         i # j => ret[p].val.text[i] # ret[p].val.text[j]


\* the sequence numbers of the rows are 0..n-1, each once
Contiguous(rows) ==
  /\ {c.sequence : c \in rows} = 0..(Cardinality(rows) - 1)
  /\ \A c, e \in rows : c.sequence = e.sequence => c.id = e.id

\* C21: in every committed state the chunk rows of each document have the
\* sequence numbers 0..n-1 with no gap and no duplicate, and re-chunking
\* replaces the whole set: when the rows of a document change, every old row
\* is gone and every row is new; a row that stays is never edited in place
\* (only its embedded flag changes).
C21_WholeSetReplaced ==
  [][/\ \A d \in {c.document_id : c \in chunks'} : Contiguous(ChunksOfDoc(chunks', d))
     /\ \A c \in chunks, x \in chunks' :
          c.id = x.id => [x EXCEPT !.embedding_stored = c.embedding_stored] = c
     /\ \A p \in Procs :
          (pc[p] = "c_commit" /\ pc'[p] # "c_commit" /\ chunks' # chunks) =>
             /\ ChunkIdsIn(ChunksOfDoc(chunks, loc[p].document_id)) \cap ChunkIdsIn(chunks') = {}
             /\ ChunksOfDoc(chunks', loc[p].document_id) = loc[p].added
             /\ chunks' \ loc[p].added = chunks \ ChunksOfDoc(chunks, loc[p].document_id)]_vars

\* a document that had a chunk has been re-chunked into two chunks
C21_Witness ==
  \E p \in Procs :
    /\ Returned(p, "chunk")
    /\ ChunksOfDoc(pre[p].chunks, ret[p].val.document_id) # {}
    /\ Cardinality(ChunksOfDoc(chunks, ret[p].val.document_id)) = 2
    /\ ChunkIdsIn(ChunksOfDoc(pre[p].chunks, ret[p].val.document_id)) \cap ChunkIdsIn(chunks) = {}


\* thread p holds the vectors of a call of OpenAIEmbedder that called the
\* remote service
RemoteCalled(p) ==
  (Returned(p, "embed_text") \/ Returned(p, "embed_batch")) /\ ret[p].val.calls > 0

\* C22: when a call of the embedding provider fails it is retried exactly
\* once, and the result degrades to zero vectors only if the retry fails too,
\* for embed_text and for embed_batch alike.
C22_RetryOnce ==
  \A p \in Procs :
    RemoteCalled(p) =>
      /\ ret[p].val.calls = (IF ret[p].val.ok1 THEN 1 ELSE 2)
      /\ (ret[p].val.ok1 \/ ret[p].val.ok2) =>
           \A i \in 1..Len(ret[p].val.texts) :
             ~Blank(ret[p].val.texts[i]) => ret[p].val.vecs[i] = RemoteEmbedding(ret[p].val.texts[i])

\* thread p holds the response of a call during which the embedding provider
\* failed (embed_batch: its call raised; embed_text: the call and the retry)
ProviderFailed(p) ==
  /\ pc[p] = "done"
  /\ "provider_failed" \in DOMAIN ret[p].val
  /\ ret[p].val.provider_failed

\* C23: a build or a search during which the embedding provider fails ends
\* with an error; the failed build leaves the index file and every chunk's
\* embedded flag as they were, and the failed search returns no result list.
C23_ProviderFailureSurfaced ==
  \A p \in Procs :
    (pc[p] = "done" /\ ret[p].op \in {"build", "search"} /\ ProviderFailed(p)) =>
      /\ ret[p].status # "ok"
      /\ ret[p].op = "build" => (index = pre[p].index /\ chunks = pre[p].chunks)

\* thread p holds the vectors of a call of op of either embedder
EmbedderReturned(p, op) == Returned(p, op) \/ Returned(p, "local_" \o op)

\* what the embedder of thread p's call gives for a non-blank text when its
\* model answers
EmbeddingFor(p, text) ==
  IF ret[p].op \in {"embed_text", "embed_batch"} THEN RemoteEmbedding(text) ELSE LocalEncode(text)

\* the model of thread p's call answered (the remote call of embed_batch, one
\* of the two remote calls of embed_text; LocalEmbedder has no remote call)
ModelAnswered(p) ==
  \/ ret[p].op \in {"local_embed_text", "local_embed_batch"}
  \/ ret[p].op = "embed_batch" /\ ret[p].val.ok1
  \/ ret[p].op = "embed_text" /\ (ret[p].val.ok1 \/ ret[p].val.ok2)

\* C24: embed_batch returns one vector of length D per input text, in input
\* order: the zero vector where the text is blank or whitespace only, the
\* embedding of the text elsewhere (zero vectors when the remote call failed);
\* no blank text is sent to the model and a batch of blank texts only makes
\* no call; embed_text on a blank text returns the zero vector without a call.
C24_BatchAligned ==
  \A p \in Procs :
    (EmbedderReturned(p, "embed_batch") \/ EmbedderReturned(p, "embed_text")) =>
      LET texts == ret[p].val.texts
          vecs == ret[p].val.vecs
          zero == [i \in 1..ret[p].val.dimension |-> 0]
      IN /\ Len(vecs) = Len(texts)
         /\ \A i \in 1..Len(texts) :
              /\ Len(vecs[i]) = ret[p].val.dimension
              /\ Blank(texts[i]) => vecs[i] = zero
              /\ ~Blank(texts[i]) =>
                   vecs[i] = (IF ModelAnswered(p) THEN EmbeddingFor(p, texts[i]) ELSE zero)
         /\ \A j \in 1..Len(ret[p].val.sent) : ~Blank(ret[p].val.sent[j])
         /\ (\A i \in 1..Len(texts) : Blank(texts[i])) =>
              (ret[p].val.calls = 0 /\ ret[p].val.sent = <<>>)

\* a batch with a whitespace-only text before a non-blank one has been
\* embedded by the remote service
C24_Witness ==
  \E p \in Procs :
    /\ Returned(p, "embed_batch")
    /\ ret[p].val.texts = << <<0>>, <<2, 1>>, <<>> >>
    /\ ret[p].val.ok1
    /\ ret[p].val.calls = 1
    /\ ret[p].val.sent = << <<2, 1>> >>

\* thread p's register call ends in this step
RegisterEnds(p) == pc[p] \in {"idle", "r_flush", "r_commit"} /\ pc'[p] = "done" /\ ret'[p].op = "register"

\* thread p's register call of path starts in this step
RegisterStarts(p, path) ==
  /\ pc[p] = "idle"
  /\ \/ pc'[p] = "r_flush" /\ loc'[p].arg = path
     \/ RegisterEnds(p) /\ ret'[p].status # "ok" /\ ret'[p].val.path = path

\* one directory, whatever the spelling of the path
SameDirectory(path, root) == path = root \/ path = root \o "/."

\* C25: register raises ValueError when the path is not an existing directory
\* and when a vault already owns the directory, also when the path spells the
\* directory differently; a register that fails leaves the set of vaults as it
\* is, one that succeeds adds exactly one vault, with is_indexed false and the
\* canonical path of the directory.
C25_Register ==
  [][\A p \in Procs :
       /\ \A path \in PathArgs :
            (/\ RegisterStarts(p, path)
             /\ \/ \A d \in dirs : ~SameDirectory(path, d)
                \/ \E x \in vaults : SameDirectory(path, x.path)) =>
              (RegisterEnds(p) /\ ret'[p].status = "ValueError")
       /\ (RegisterEnds(p) /\ ret'[p].status # "ok") => vaults' = vaults
       /\ (\E path \in PathArgs : RegisterStarts(p, path) /\ ~RegisterEnds(p)) => vaults' = vaults
       /\ (pc[p] = "r_flush" /\ pc'[p] = "r_commit") => vaults' = vaults
       /\ (RegisterEnds(p) /\ ret'[p].status = "ok") =>
            /\ ret'[p].val \notin vaults
            /\ vaults' = vaults \cup {ret'[p].val}
            /\ ~ret'[p].val.is_indexed
            /\ ret'[p].val.path \in Dirs
            /\ SameDirectory(loc[p].arg, ret'[p].val.path)
            /\ \A x \in vaults : x.path # ret'[p].val.path /\ x.id # ret'[p].val.id]_vars

\* a register of /v under another spelling has been refused while a vault
\* owns /v, and the other thread has registered a vault at /w
C25_Witness ==
  \E p, q \in Procs :
    /\ Raised(p, "register")
    /\ ret[p].val.msg = "already registered"
    /\ ret[p].val.path = "/v/."
    /\ Returned(q, "register")
    /\ ret[q].val.path = "/w"
    /\ ret[q].val \in vaults /\ ret[q].val \notin pre[q].vaults

\* C26: in every reachable state, after any sequence or interleaving of
\* register and delete calls, no two vaults have the same canonical root path
\* (and no two the same id).
C26_UniqueRoots ==
  \A x, y \in vaults : (x.path = y.path \/ x.id = y.id) => x = y

\* two register calls of one directory have passed the check for an owner
\* together; one has committed its vault and the other was refused by the
\* INSERT
C26_Witness ==
  \E p, q \in Procs :
    /\ Returned(p, "register")
    /\ ret[p].val \in vaults
    /\ Raised(q, "register")
    /\ ret[q].val.msg = "IntegrityError"
    /\ Resolve(ret[q].val.path) = ret[p].val.path

\* thread p's delete call ends in this step
DeleteEnds(p) == pc[p] = "idle" /\ pc'[p] = "done" /\ ret'[p].op = "delete"

\* C27: delete of an existing vault returns true and removes the vault row,
\* all its Document rows and all Chunk rows of those documents (none is
\* left), and leaves its index file, the files on disk and the rows of every
\* other vault untouched; delete of an unknown id returns false and changes
\* nothing.
C27_DeleteCascades ==
  [][\A p \in Procs :
       DeleteEnds(p) =>
         LET v == ret'[p].val.vault
             gone == {d.id : d \in {x \in documents : x.vault_id = v}}
         IN /\ <<index, slotOwner, dirs, files>>' = <<index, slotOwner, dirs, files>>
            /\ ret'[p].status # "ok" => <<vaults, documents, chunks>>' = <<vaults, documents, chunks>>
            /\ ret'[p].status = "ok" =>
                 /\ ret'[p].val.deleted <=> \E x \in vaults : x.id = v
                 /\ vaults' = {x \in vaults : x.id # v}
                 /\ documents' = {x \in documents : x.vault_id # v}
                 /\ chunks' = {c \in chunks : c.document_id \notin gone}
                 /\ \A c \in chunks' : \E d \in documents' : d.id = c.document_id
                 /\ ~ret'[p].val.deleted => <<vaults, documents, chunks>>' = <<vaults, documents, chunks>>]_vars

\* a vault with an embedded chunk has been deleted: its index file is still
\* there, and so are the document and the chunk of the other vault
C27_Witness ==
  \E p \in Procs :
    /\ Returned(p, "delete")
    /\ ret[p].val.deleted
    /\ \E c \in pre[p].chunks, d \in pre[p].documents :
         c.document_id = d.id /\ d.vault_id = ret[p].val.vault /\ c.embedding_stored
    /\ index[ret[p].val.vault].exists
    /\ \A x \in vaults : x.id # ret[p].val.vault
    /\ \A d \in documents : d.vault_id # ret[p].val.vault
    /\ \E c \in chunks, d \in documents :
         c.document_id = d.id /\ d.vault_id # ret[p].val.vault

\* thread p calls op (scan or build) on vault v in this step
LookupCalled(p, op, v) ==
  /\ pc[p] = "idle"
  /\ \/ pc'[p] \in {"s_commit", "b_read"} /\ loc'[p].op = op /\ loc'[p].vault = v
     \/ pc'[p] = "done" /\ ret'[p].op = op /\ ret'[p].val.vault = v

\* C28: a scan of an unknown vault id, a scan of a vault whose root path no
\* longer exists and an index build of an unknown vault id each raise
\* ValueError (not found) and leave every vault, document and chunk row and
\* every index file as they were; is_indexed in particular is not set.
C28_NotFoundChangesNothing ==
  [][\A p \in Procs :
       /\ \A v \in RegistryIds :
            /\ (/\ LookupCalled(p, "scan", v)
                /\ \A x \in vaults : x.id = v => x.path \notin dirs) =>
                 (pc'[p] = "done" /\ ret'[p].status = "ValueError")
            /\ (LookupCalled(p, "build", v) /\ \A x \in vaults : x.id # v) =>
                 (pc'[p] = "done" /\ ret'[p].status = "ValueError")
       /\ (/\ pc[p] # "done" /\ pc'[p] = "done"
           /\ ret'[p].op \in {"scan", "build"} /\ ret'[p].status = "ValueError") =>
            <<vaults, documents, chunks, index, slotOwner, files>>' =
              <<vaults, documents, chunks, index, slotOwner, files>>]_vars

\* a scan of a registered vault, not yet scanned, has been refused because
\* its root directory is gone
C28_Witness ==
  \E p \in Procs :
    /\ Raised(p, "scan")
    /\ ret[p].val.msg = "vault path does not exist"
    /\ \E x \in vaults : x.id = ret[p].val.vault /\ x.path \notin dirs /\ ~x.is_indexed

\* the index of vault v holds slots of chunks that re-chunking has deleted,
\* and an index build has run since
RebuiltAfterRechunk(v) ==
  /\ SlotChunks(v) \ ChunkIdsIn(chunks) # {}
  /\ \E i, j \in 1..Len(slotOwner[v]) :
       /\ slotOwner[v][i].chunk \notin ChunkIdsIn(chunks)
       /\ slotOwner[v][j].build > slotOwner[v][i].build
  /\ Len(index[v].vecs) = Len(slotOwner[v])

\* C29: after a document was re-chunked and the index built again, every
\* chunk search returns is the chunk whose vector is at the matched index
\* position, and a matched position of a deleted chunk gives no result.
C29_NoMisattribution ==
  \A p \in Procs :
    (Returned(p, "search") /\ RebuiltAfterRechunk(ret[p].val.vault)) =>
      \A i \in 1..Len(ret[p].val.results) :
        LET r == ret[p].val.results[i]
        IN r.idx >= 0 =>
             /\ r.chunk_id = slotOwner[ret[p].val.vault][r.idx + 1].chunk
             /\ slotOwner[ret[p].val.vault][r.idx + 1].chunk \in ChunkIdsIn(chunks)

\* C30: search returns at most min(k, number of vectors in the index)
\* results and no chunk twice; a neighbour slot the index could not fill
\* (position -1) gives no result.
C30_NoPaddedResults ==
  \A p \in Procs :
    Returned(p, "search") =>
      LET rs == ret[p].val.results
      IN /\ Len(rs) <= Min(ret[p].val.top_k, Len(index[ret[p].val.vault].vecs))
         /\ \A i \in 1..Len(rs) : rs[i].idx # 0 - 1
         /\ \A i, j \in 1..Len(rs) : rs[i].chunk_id = rs[j].chunk_id => i = j


\* C31: a process request on a vault, sent after an earlier process request
\* on the same vault succeeded and with no file changed in between, reports
\* vectors_added = 0 and leaves the index file, every chunk row and every
\* embedded flag as the earlier request left them.
C31_ProcessIdempotent ==
  (/\ pc["t1"] = "done" /\ ret["t1"].op = "process" /\ ret["t1"].status = "ok"
   /\ pc["t2"] = "done" /\ ret["t2"].op = "process" /\ ret["t2"].status = "ok"
   /\ ret["t2"].vault_id = ret["t1"].vault_id
   /\ files = pre["t2"].files) =>
     /\ ret["t2"].index_stats.vectors_added = 0
     /\ index = pre["t2"].index
     /\ chunks = pre["t2"].chunks


\* no service call is between its start and its response
Quiescent == \A p \in Procs : pc[p] \in {"idle", "done"}

\* C32: after any sequence of scan, chunk, index build and delete calls made
\* one at a time, every vault has at most as many chunks marked as embedded
\* as its index file has vectors, and a vault with a chunk marked as embedded
\* has an index file.
C32_EmbeddedWithinIndex ==
  Quiescent =>
    \A v \in VaultIds :
      /\ EmbeddedCount(v) <= Len(index[v].vecs)
      /\ EmbeddedCount(v) > 0 => index[v].exists

\* an index build has returned on a vault whose index file holds more
\* vectors than the vault has embedded chunks (a document was chunked again
\* between two builds)
C32_Witness ==
  \E p \in Procs :
    /\ Returned(p, "build")
    /\ EmbeddedCount(ret[p].val.vault) > 0
    /\ Len(index[ret[p].val.vault].vecs) > EmbeddedCount(ret[p].val.vault)


\* the relative paths that have more than one Document row in a vault
DuplicatePaths(docs) ==
  {<<d.vault_id, d.path>> : d \in {x \in docs : \E e \in docs :
                                      e # x /\ e.vault_id = x.vault_id /\ e.path = x.path}}

\* C33: two scans of one vault that overlap can both find no Document for a
\* new file and both insert one, which leaves two Document rows for one
\* relative path; a second row for a path is only ever inserted by the commit
\* of a scan that read the documents before another scan committed its row
\* for that path, so scans made one at a time never reach such a state.
C33_DuplicatesOnlyByOverlap ==
  [][\A k \in DuplicatePaths(documents') \ DuplicatePaths(documents) :
       \E p \in Procs :
         /\ pc[p] = "s_commit" /\ pc'[p] = "done"
         /\ loc[p].vault = k[1]
         /\ k[2] \in DOMAIN loc[p].classes /\ loc[p].classes[k[2]] = "new"
         /\ \A d \in pre[p].documents : ~(d.vault_id = k[1] /\ d.path = k[2])
         /\ \E d \in documents : d.vault_id = k[1] /\ d.path = k[2]]_vars

\* both threads hold the summary of a scan of the same vault that counted
\* the same file as new, and the path has two Document rows
C33_Witness ==
  /\ Returned("t1", "scan") /\ Returned("t2", "scan")
  /\ ret["t1"].val.vault = ret["t2"].val.vault
  /\ \E rel \in DOMAIN ret["t1"].val.classes :
       /\ ret["t1"].val.classes[rel] = "new"
       /\ rel \in DOMAIN ret["t2"].val.classes /\ ret["t2"].val.classes[rel] = "new"
       /\ Cardinality({d \in documents : d.vault_id = ret["t1"].val.vault /\ d.path = rel}) = 2


\* thread p holds the error of a process request that stopped at the chunking
\* of a document whose file is no longer on disk
FailedOnRemovedFile(p) ==
  /\ Raised(p, "process") /\ ret[p].failed = "chunk"
  /\ \E d \in documents, x \in vaults :
       /\ d.id = Head(ret[p].queue) /\ x.id = d.vault_id
       /\ files[<<x.path, d.path>>] = NoFile

\* C34: a scan deletes no Document row, so the document of a removed file
\* stays; when process_vault then fails to chunk such a document it stops
\* before the index build: the index file is as it was before the request, the
\* changes of its scan stay committed, the documents chunked before the
\* failing one keep their new chunk rows, none of them embedded, and the
\* chunk rows of the failing document and of the documents after it are as
\* they were.
C34_ProcessStopsAtRemovedFile ==
  \A p \in Procs :
    /\ (pc[p] = "done" /\ ret[p].op \in {"scan", "process"}) =>
         \A d \in pre[p].documents :
           \E e \in documents : e.id = d.id /\ e.vault_id = d.vault_id /\ e.path = d.path
    /\ FailedOnRemovedFile(p) =>
         LET v == ret[p].vault_id
             root == (CHOOSE x \in vaults : x.id = v).path
             cl == ret[p].classes
             done == Range(ret[p].documents_processed)
         IN /\ index = pre[p].index
            /\ \E x \in vaults : x.id = v /\ x.is_indexed
            /\ \A rel \in DOMAIN cl :
                 /\ cl[rel] = "new" =>
                      \E d \in documents \ pre[p].documents :
                        /\ d.vault_id = v /\ d.path = rel
                        /\ d.content_hash = CalculateHash(files[<<root, rel>>].text)
                 /\ cl[rel] = "updated" =>
                      \E d \in documents, e \in pre[p].documents :
                        /\ d.id = e.id /\ d.path = rel /\ d.content_hash # e.content_hash
                        /\ d.content_hash = CalculateHash(files[<<root, rel>>].text)
            /\ \A d \in documents :
                 /\ d.id \in done =>
                      /\ CompleteSet(ChunksOfDoc(chunks, d.id), d.id, files[<<root, d.path>>].text)
                      /\ ChunkIdsIn(ChunksOfDoc(chunks, d.id)) \cap ChunkIdsIn(pre[p].chunks) = {}
                 /\ d.id \notin done => ChunksOfDoc(chunks, d.id) = ChunksOfDoc(pre[p].chunks, d.id)

\* a process request has failed on the document of a removed file after it
\* replaced the embedded chunk of another document, in a vault with an index
C34_Witness ==
  \E p \in Procs :
    /\ FailedOnRemovedFile(p)
    /\ ret[p].documents_processed # <<>>
    /\ pre[p].index[ret[p].vault_id].exists
    /\ \E c \in pre[p].chunks :
         c.document_id \in Range(ret[p].documents_processed) /\ c.embedding_stored


\* ceil(a / b) for a >= 0 and b > 0
CeilDiv(a, b) == (a + b - 1) \div b

\* every window cut so far after the first ends strictly after the one before
EndsIncrease(windows) ==
  \A i \in 2..Len(windows) : windows[i].end > windows[i - 1].end

\* C35: for every text and every chunk size S and overlap V with 0 <= V < S
\* the loop of _create_chunks terminates, every window after the first ends
\* strictly after the window before it, and a text of length len > S gives
\* exactly 1 + ceil((len - S) / (S - V)) chunks.
C35_LoopTerminates ==
  /\ <>(pc["t1"] = "done")
  /\ [](\A p \in Procs :
          /\ pc[p] = "k_loop" => EndsIncrease(loc[p].windows)
          /\ Returned(p, "create_chunks") =>
               LET len == Len(ret[p].val.text)
                   S == ret[p].val.chunk_size
                   V == ret[p].val.chunk_overlap
               IN /\ EndsIncrease(ret[p].val.windows)
                  /\ Len(ret[p].val.chunks) = Len(ret[p].val.windows)
                  /\ len > S => Len(ret[p].val.chunks) = 1 + CeilDiv(len - S, S - V))

\* a text much longer than S has been cut with the largest overlap, S - 1,
\* where every window adds one character
C35_Witness ==
  \E p \in Procs :
    /\ Returned(p, "create_chunks")
    /\ ret[p].val.chunk_overlap = ret[p].val.chunk_size - 1
    /\ ret[p].val.chunk_size >= 2
    /\ Len(ret[p].val.text) >= ret[p].val.chunk_size + 10
    /\ Len(ret[p].val.chunks) = 1 + Len(ret[p].val.text) - ret[p].val.chunk_size


\* C36: a chunker constructed with chunk size S and overlap V, 0 <= V < S,
\* cuts with exactly S and V; constructed with overlap 0 it returns windows
\* of which no two adjacent ones share a character.
C36_ConfiguredOverlap ==
  \A p \in Procs :
    "chunk_overlap" \in DOMAIN job[p] =>
      /\ pc[p] \in {"k_enter", "k_loop"} =>
           /\ loc[p].chunk_size = job[p].chunk_size
           /\ loc[p].chunk_overlap = job[p].chunk_overlap
      /\ Returned(p, "create_chunks") =>
           /\ ret[p].val.chunk_size = job[p].chunk_size
           /\ ret[p].val.chunk_overlap = job[p].chunk_overlap
           /\ job[p].chunk_overlap = 0 =>
                \A i \in 2..Len(ret[p].val.windows) :
                  ret[p].val.windows[i].start >= ret[p].val.windows[i - 1].end


\* thread p calls query on vault v in this step
QueryCalled(p, v) ==
  /\ pc[p] = "idle"
  /\ \/ pc'[p] = "q_search" /\ loc'[p].vault = v
     \/ pc'[p] = "done" /\ ret'[p].op = "query" /\ ret'[p].val.vault = v

\* C37: a query for a vault id that has no vault row, because the vault was
\* deleted or never registered, raises ValueError (vault not found) whether
\* or not an index file of that id is on disk, and no step of a query changes
\* a vault, document or chunk row, an index file or a file.
C37_QueryOfDeletedVault ==
  [][\A p \in Procs :
       /\ \A v \in RegistryIds :
            (QueryCalled(p, v) /\ \A x \in vaults : x.id # v) =>
              /\ pc'[p] = "done"
              /\ ret'[p].status = "ValueError"
              /\ ret'[p].val.msg = "vault not found"
       /\ ((\E v \in RegistryIds : QueryCalled(p, v)) \/ (pc[p] = "q_search" /\ pc'[p] = "done")) =>
            <<vaults, documents, chunks, index, slotOwner, dirs, files>>' =
              <<vaults, documents, chunks, index, slotOwner, dirs, files>>]_vars

\* a query has been refused for a vault that was deleted in this run and
\* whose index file, with its vector, is still on disk
C37_Witness ==
  \E p \in Procs :
    /\ Raised(p, "query")
    /\ ret[p].val.msg = "vault not found"
    /\ \E q \in Procs \ {p} :
         /\ Returned(q, "delete") /\ ret[q].val.deleted
         /\ ret[q].val.vault = ret[p].val.vault
    /\ index[ret[p].val.vault].exists
    /\ index[ret[p].val.vault].vecs # <<>>
    /\ \A x \in vaults : x.id # ret[p].val.vault

============================================================================
